---- MODULE Spec2Model ----
(***************************************************************************)
(* Cell-matrix terminal display engine: area algebra, screen operations,   *)
(* the tile cache of the xdg-xcb display, the controller and the devices.   *)
(*                                                                         *)
(* The specifications share the variables:                                 *)
(*   SpecArea    the pure function aintersection applied to bounded inputs *)
(*   Spec        Screen objects: creation, rewrite, select, replicate      *)
(*   SpecCache   the tile cache: acquire (walk, prioritize, allocate)      *)
(*   SpecLocality, SpecEviction  the tile cache in long runs of two cells  *)
(*               and in runs of fresh cells that exhaust the storage       *)
(*   SpecWalk    the tile cache in runs of three cells of one bucket       *)
(*   SpecRender  xdg-xcb: invalidate_cells and render_pixels               *)
(*   SpecKeys    xdg-xcb events, Device.transfer_event and Device.key      *)
(*   SpecControls  Device.controls_snapshot and Device.integrate_controls  *)
(*   SpecMirror, SpecMirrorDisplay  the two channels of the mirror device  *)
(*   SpecBoot    device_manage_terminal of the two backends                *)
(*   SpecDefine  Device.define of the two backends                         *)
(*   SpecCells   Screen.rewrite and Screen.select of glyphs and pixels     *)
(*   SpecDevice  the Device object: creation and resize_screen             *)
(*   SpecDisplay replicate_cells and dispatch_image of the two backends    *)
(*   SpecView    invalidation beyond the view, resize_screen, rendering    *)
(***************************************************************************)
EXTENDS Integers, Sequences, FiniteSets, TLC

VARIABLES
    ia,         \* SpecArea: the operands [bounds, latter] of aintersection
    ir,         \* SpecArea: [done, area], the result once computed
    so,         \* the ScreenObject: [exists, dimensions, memlen]
    image,      \* the cells of so->memory that so->image points to
    op,         \* the last operation performed on the screen and its effects
    tc,         \* struct Device_TileCache
    tiles,      \* pixels held by the storage images, per physical slot
    acq,        \* the last cache_acquire_tile call and its result
    loc,        \* SpecLocality: acquires and first position of each cell
    ev,         \* SpecEviction: the keys acquired so far, by bucket parity
    hist,       \* history of the cache: the first tile of each cell, its
                \* rasterizer calls (0, 1, or 2 for more), evictions, swaps
    xd,         \* xdg-xcb struct Device: [cmd_view, cmd_image]
    xi,         \* xdg-xcb struct Device_XDisplay: [invalids]
    rp,         \* the last device_render_pixels call and its effects
    ctl,        \* struct ControllerStatus, the cmd_status of the device
    errno,      \* errno of the process
    te,         \* the last Device.transfer_event call: the event, the result
    ko,         \* the result of Device.key for the event transferred last
    snap,       \* the last Device.controls_snapshot call and its result
    ic,         \* the last Device.integrate_controls call
    mch,        \* mirror: the controls channel, "open", "eof" or "stopped"
    mt,         \* mirror: cm_event_text
    mi,         \* mirror: [icount, rcount, invalids]
    md,         \* mirror: what the last call wrote to the display channel
    boot,       \* the device_manage_terminal call and what it returned
    dd,         \* Device.define: the backend, the last call, the identifiers
    dv,         \* the Device object: what dev_screen, cmd_image and cmd_view
                \* refer to
    dc,         \* the last replicate_cells or dispatch_image call of a device
    tx          \* the last Device.transmit call: the receiver it invoked

vars == <<ia, ir, so, image, op, tc, tiles, acq, hist, loc, ev, xd, xi, rp,
          ctl, errno, te, ko, snap, ic, mch, mt, mi, md, boot, dd, dv, dc, tx>>

areaVars == <<ia, ir>>
screenVars == <<so, image, op>>
cacheVars == <<tc, tiles, acq, hist, loc, ev>>
renderVars == <<xd, xi, rp>>
controllerVars == <<ctl, errno, te, ko, snap, ic>>
mirrorVars == <<mch, mt, mi, md>>

\* The variables of the Device object of the extension module.
objectVars == <<dd, dv, dc, tx>>

\* The variables of the device backends and of the controller.
deviceVars == <<renderVars, controllerVars, mirrorVars, boot, objectVars>>

(***************************************************************************)
(* Bounds of the model.                                                    *)
(***************************************************************************)
MaxField == 2        \* SpecArea: area fields range over 0..MaxField and USHRT_MAX
MaxLines == 2        \* screen dimensions: lines in 0..MaxLines
MaxSpan == 2         \* screen dimensions: span in 0..MaxSpan
MaxAreaOffset == 1   \* area arguments: offsets in 0..MaxAreaOffset
MaxAreaSize == 2     \* area arguments: lines and span in 0..MaxAreaSize
MaxSource == 6       \* rewrite: length of the source iterator

(***************************************************************************)
(* Integer widths.                                                         *)
(***************************************************************************)
USHRT_MAX == 65535

U16(n) == n % 65536

(***************************************************************************)
(* struct CellArea and aintersection (screen.h).                           *)
(***************************************************************************)
CellArea(top, left, lines, span) ==
    [top_offset |-> top, left_offset |-> left, lines |-> lines, span |-> span]

CellArea_GetVolume(A) == A.lines * A.span

\* _min and _max as the macros expand on unsigned operands.
c_min(f, l) == IF f < l THEN f ELSE l

c_max(f, l) == IF f > l THEN f ELSE l

\* _min(limit - offset, size) where limit is an unsigned int: a negative
\* difference wraps to at least 2^32 - 65535, which no unsigned short reaches,
\* so the comparison selects size.
remaining(limit, offset, size) ==
    IF limit - offset < 0 THEN size ELSE c_min(limit - offset, size)

aintersection(bounds, latter) ==
    LET ylimit == bounds.top_offset + bounds.lines
        xlimit == bounds.left_offset + bounds.span
        ymax == U16(c_max(bounds.top_offset, latter.top_offset))
        xmax == U16(c_max(bounds.left_offset, latter.left_offset))
        y == U16(c_min(ylimit, ymax))
        x == U16(c_min(xlimit, xmax))
    IN  CellArea(y, x,
            U16(remaining(ylimit, latter.top_offset, latter.lines)),
            U16(remaining(xlimit, latter.left_offset, latter.span)))

\* Area.intersect of the Python type: self is the bounds.
area_intersect(self, selection) == aintersection(self, selection)

(***************************************************************************)
(* struct Cell (screen.h).  The model keeps the codepoint and the window   *)
(* of a cell; colours and traits are zero.                                 *)
(***************************************************************************)
CM_GLYPH_WINDOW_BITS == 4

CellSize == 20

Cell(cp, w) == [c_codepoint |-> cp, c_window |-> w % (2 ^ CM_GLYPH_WINDOW_BITS)]

\* The cells a caller's buffer holds when the screen is created: all distinct.
BufferCell(i) == Cell(i, 0)

\* The cells yielded by a rewrite source: distinct from the buffer's.
SourceCell(i) == Cell(100 + i, 0)

\* What a read outside of the buffer may return.
GarbageCells == {Cell(-1, 0), Cell(-2, 0)}

\* An item of a PyList_New list that was never set.
NullItem == Cell(0, 15)

\* The window value that marks a pixel tile.
CM_IMAGE_TILE == CM_GLYPH_WINDOW_BITS * CM_GLYPH_WINDOW_BITS

\* c_window is a bit field of CM_GLYPH_WINDOW_BITS bits: the store keeps
\* the low bits of W.
Cell_SetWindow(C, W) == [C EXCEPT !.c_window = W % (2 ^ CM_GLYPH_WINDOW_BITS)]

Cell_GlyphType(C) == C.c_window # CM_IMAGE_TILE

\* Glyph(codepoint, window = window): the window is parsed as an unsigned
\* char.
glyph_new(codepoint, window) ==
    Cell_SetWindow([c_codepoint |-> codepoint, c_window |-> 0], window % 256)

\* Pixels(identity)
pixels_new(identity) ==
    Cell_SetWindow([c_codepoint |-> identity, c_window |-> 0], CM_IMAGE_TILE)

\* The type of the object that Screen.select allocates for a cell.
select_type(C) == IF Cell_GlyphType(C) THEN "Glyph" ELSE "Pixels"

(***************************************************************************)
(* mforeach (screen.h): the buffer indices visited for area ca over a      *)
(* buffer of stride SPAN, in visit order.                                  *)
(***************************************************************************)
mforeach(SPAN, ca) ==
    IF SPAN = 0 \/ ca.lines = 0 \/ ca.span = 0
    THEN << >>
    ELSE [k \in 1..(ca.lines * ca.span) |->
            ((ca.top_offset + ((k - 1) \div ca.span)) * SPAN)
            + ca.left_offset + ((k - 1) % ca.span)]

\* Number of whole cells in a buffer of memlen bytes.
BufferCells(memlen) == memlen \div CellSize

\* *Cell read at buffer index i; g decides what lies outside of the buffer.
ReadCell(img, i, g) ==
    IF i >= 0 /\ i < Len(img) THEN img[i + 1] ELSE g[i % 2]

\* *Cell = c at buffer index i; a store outside of the buffer leaves it alone.
WriteCell(img, i, c) ==
    IF i >= 0 /\ i < Len(img) THEN [img EXCEPT ![i + 1] = c] ELSE img

(***************************************************************************)
(* Screen.rewrite (module.c).  An element of the source iterator is        *)
(* [isCell, cell]: isCell is the outcome of PyObject_IsInstance.           *)
(***************************************************************************)
RECURSIVE rewrite_loop(_, _, _, _, _, _)
rewrite_loop(source, i, cursor, offset, st, p) ==
    IF i > Len(source)
    THEN [st EXCEPT !.consumed = Len(source)]
    ELSE IF ~source[i].isCell
    THEN [st EXCEPT !.err = "ValueError", !.consumed = i]
    ELSE LET st2 == [st EXCEPT !.image = WriteCell(st.image, cursor, source[i].cell),
                               !.written = Append(st.written, cursor),
                               !.consumed = i]
         IN  IF offset + 1 >= p.span
             THEN IF cursor + 1 + p.lnd >= p.edge
                  THEN st2
                  ELSE rewrite_loop(source, i + 1, cursor + 1 + p.lnd, 0, st2, p)
             ELSE rewrite_loop(source, i + 1, cursor + 1, offset + 1, st2, p)

\* Mutant: the cursor is not advanced by the rest of the stride at the end
\* of a row.
screen_rewrite_contiguous(s, img, target, source) ==
    LET selection == [target EXCEPT
            !.top_offset = U16(target.top_offset - s.dimensions.top_offset),
            !.left_offset = U16(target.left_offset - s.dimensions.left_offset)]
        p == [lnd |-> 0,
              span |-> selection.span,
              edge |-> s.dimensions.span * s.dimensions.lines]
        cursor == (s.dimensions.span * selection.top_offset) + selection.left_offset
    IN  rewrite_loop(source, 1, cursor, 0,
            [image |-> img, written |-> << >>, err |-> "", consumed |-> 0], p)

\* Mutant: the elements of the source are written without the check of
\* their type.
screen_rewrite_unchecked(s, img, target, source) ==
    LET selection == [target EXCEPT
            !.top_offset = U16(target.top_offset - s.dimensions.top_offset),
            !.left_offset = U16(target.left_offset - s.dimensions.left_offset)]
        p == [lnd |-> s.dimensions.span - target.span,
              span |-> selection.span,
              edge |-> s.dimensions.span * s.dimensions.lines]
        cursor == (s.dimensions.span * selection.top_offset) + selection.left_offset
    IN  rewrite_loop([i \in 1..Len(source) |-> [source[i] EXCEPT !.isCell = TRUE]],
            1, cursor, 0,
            [image |-> img, written |-> << >>, err |-> "", consumed |-> 0], p)

\* Mutant: the buffer is restored when the source yields an element that is
\* not a Cell.
screen_rewrite_restoring(s, img, target, source) ==
    LET selection == [target EXCEPT
            !.top_offset = U16(target.top_offset - s.dimensions.top_offset),
            !.left_offset = U16(target.left_offset - s.dimensions.left_offset)]
        p == [lnd |-> s.dimensions.span - target.span,
              span |-> selection.span,
              edge |-> s.dimensions.span * s.dimensions.lines]
        cursor == (s.dimensions.span * selection.top_offset) + selection.left_offset
        r == rewrite_loop(source, 1, cursor, 0,
                [image |-> img, written |-> << >>, err |-> "", consumed |-> 0], p)
    IN  IF r.err = "" THEN r ELSE [r EXCEPT !.image = img]

\* lnd is a size_t: a negative difference wraps, and adding it to the cursor
\* moves the cursor back by the same number of cells.
screen_rewrite(s, img, target, source) ==
    LET selection == [target EXCEPT
            !.top_offset = U16(target.top_offset - s.dimensions.top_offset),
            !.left_offset = U16(target.left_offset - s.dimensions.left_offset)]
        p == [lnd |-> s.dimensions.span - target.span,
              span |-> selection.span,
              edge |-> s.dimensions.span * s.dimensions.lines]
        cursor == (s.dimensions.span * selection.top_offset) + selection.left_offset
    IN  rewrite_loop(source, 1, cursor, 0,
            [image |-> img, written |-> << >>, err |-> "", consumed |-> 0], p)

(***************************************************************************)
(* Screen.select (module.c).                                               *)
(***************************************************************************)
select_selection(s, area) ==
    LET selection == aintersection(s.dimensions, area)
    IN  [selection EXCEPT
            !.top_offset = U16(selection.top_offset - s.dimensions.top_offset),
            !.left_offset = U16(selection.left_offset - s.dimensions.left_offset)]

screen_select(s, img, area, g) ==
    LET selection == select_selection(s, area)
        visited == mforeach(s.dimensions.span, selection)
    IN  [result |-> [i \in 1..(selection.lines * selection.span) |->
                        IF i <= Len(visited)
                        THEN ReadCell(img, visited[i], g)
                        ELSE NullItem],
         read |-> visited]

(***************************************************************************)
(* Screen.replicate_cells (module.c).                                      *)
(***************************************************************************)
RECURSIVE replicate_update(_, _, _, _)
replicate_update(img, indices, tmpbuf, k) ==
    IF k > Len(indices)
    THEN img
    ELSE replicate_update(WriteCell(img, indices[k], tmpbuf[k]), indices, tmpbuf, k + 1)

replicate_areas(s, destination, source) ==
    LET src0 == aintersection(s.dimensions, source)
        dst0 == aintersection(s.dimensions,
                    [destination EXCEPT !.lines = src0.lines, !.span = src0.span])
        lines == IF dst0.lines < src0.lines THEN dst0.lines ELSE src0.lines
        span == IF dst0.span < src0.span THEN dst0.span ELSE src0.span
    IN  [src |-> [src0 EXCEPT !.lines = lines, !.span = span],
         dst |-> [dst0 EXCEPT !.lines = lines, !.span = span]]

screen_replicate_cells(s, img, destination, source, g) ==
    LET a == replicate_areas(s, destination, source)
        rd == mforeach(s.dimensions.span, a.src)
        wr == mforeach(s.dimensions.span, a.dst)
        tmpbuf == [k \in 1..Len(rd) |-> ReadCell(img, rd[k], g)]
    IN  [image |-> replicate_update(img, wr, tmpbuf, 1),
         read |-> rd,
         written |-> wr]

(***************************************************************************)
(* Screen creation: screen_new (the constructor) and screen_create (used   *)
(* by device_new and device_resize_screen).                                *)
(***************************************************************************)
NoScreen == [exists |-> FALSE, device |-> FALSE,
             dimensions |-> CellArea(0, 0, 0, 0), memlen |-> 0]

\* Mutant: the span is left out of the size required.
insufficient_memory_lines(memlen, area) ==
    memlen < CellSize * area.lines

\* Both functions compare memory.len with sizeof(struct Cell) * lines * span.
insufficient_memory(memlen, area) ==
    memlen < CellSize * area.lines * area.span

screen_create(memlen, area, device) ==
    IF insufficient_memory(memlen, area)
    THEN [err |-> "ValueError", screen |-> NoScreen]
    ELSE [err |-> "",
          screen |-> [exists |-> TRUE, device |-> device,
                      dimensions |-> area, memlen |-> memlen]]

screen_new(area, memlen) == screen_create(memlen, area, FALSE)

(***************************************************************************)
(* Inputs of the screen operations.                                        *)
(***************************************************************************)
\* Screens and areas of the end-to-end scenarios: a 2x3 and a 1x5 screen.
ScenarioDimensions == {CellArea(0, 0, 2, 3), CellArea(0, 0, 1, 5)}

ScenarioAreas ==
    {CellArea(0, 0, 2, 3), CellArea(0, 1, 2, 1),
     CellArea(0, 1, 1, 4), CellArea(0, 0, 1, 4)}

\* The origin of a screen's dimensions: zero, or one line and one cell in.
ScreenOrigins == {<<0, 0>>, <<1, 1>>}

ScreenDimensions ==
    {CellArea(o[1], o[2], n, w) : o \in ScreenOrigins,
                                  n \in 0..MaxLines, w \in 0..MaxSpan}
    \cup ScenarioDimensions

\* A buffer one byte short, exact, or with one surplus cell.
BufferLengths(area) ==
    LET need == CellSize * area.lines * area.span
    IN  {need, need + CellSize} \cup (IF need > 0 THEN {need - 1} ELSE {})

\* Areas that start beyond the last line or cell of every screen of the model.
FarAreas ==
    {CellArea(4, 0, 1, 1), CellArea(0, 6, 1, 1), CellArea(USHRT_MAX, USHRT_MAX, 1, 1)}

\* The cell next to the first of a screen whose origin is (1, 1).
OriginAreas == {CellArea(1, 2, 1, 1)}

AreaArgs ==
    {CellArea(t, l, n, w) : t \in 0..MaxAreaOffset, l \in 0..MaxAreaOffset,
                            n \in 0..MaxAreaSize, w \in 0..MaxAreaSize}
    \cup ScenarioAreas \cup FarAreas \cup OriginAreas

\* Sources of n elements of which at most one (at position bad) is not a Cell.
Sources ==
    {[i \in 1..n |-> [isCell |-> (i # bad), cell |-> SourceCell(i)]] :
        n \in 0..MaxSource, bad \in 0..MaxSource}

Garbage == [0..1 -> GarbageCells]

\* The choices a read makes: one when every index lies inside the buffer.
GarbageFor(img, indices) ==
    IF \A k \in 1..Len(indices) : indices[k] >= 0 /\ indices[k] < Len(img)
    THEN {[i \in 0..1 |-> Cell(-1, 0)]}
    ELSE Garbage

NoArea == CellArea(0, 0, 0, 0)

NoOp == [name |-> "none", a1 |-> NoArea, a2 |-> NoArea, source |-> << >>,
         memlen |-> 0, before |-> << >>, result |-> << >>, read |-> << >>,
         written |-> << >>, err |-> "", consumed |-> 0]

(***************************************************************************)
(* Actions of the screen specification.  One operation is applied to each  *)
(* screen created: an operation is a function of the screen, its buffer    *)
(* and its arguments, and the buffer of a new screen holds distinct cells. *)
(***************************************************************************)
Created ==
    /\ so.exists
    /\ op.name \in {"screen_new", "device_new", "resize_screen"}

\* Screen(dimensions, buffer)
ScreenNew ==
    /\ ~so.exists
    /\ \E area \in ScreenDimensions :
         \E memlen \in BufferLengths(area) :
            LET r == screen_new(area, memlen)
            IN  /\ so' = r.screen
                /\ image' = IF r.err = ""
                            THEN [i \in 1..BufferCells(memlen) |-> BufferCell(i)]
                            ELSE << >>
                /\ op' = [NoOp EXCEPT !.name = "screen_new", !.a1 = area,
                                      !.memlen = memlen, !.err = r.err]
    /\ UNCHANGED <<areaVars, cacheVars, deviceVars>>

\* struct Device and the DeviceObject over it.  cmd_image and cmd_view are
\* pointers: "NULL", "malloc" for the memory the backend allocated for
\* itself, "screen" for the image and the dimensions of dev_screen.
NoDevice == [backend |-> "", object |-> FALSE,
             cmd_image |-> "NULL", cmd_view |-> "NULL"]

\* struct Device as device_manage_terminal of a backend sets it up before
\* the application runs.
DeviceSetup(backend) ==
    IF backend = "xdg-xcb"
    THEN [backend |-> backend, object |-> FALSE,
          cmd_image |-> "malloc", cmd_view |-> "malloc"]
    ELSE [backend |-> backend, object |-> FALSE,
          cmd_image |-> "NULL", cmd_view |-> "NULL"]

\* Device(): a 1x1 screen over one zeroed cell.
device_new(d) ==
    LET r == screen_create(CellSize, CellArea(0, 0, 1, 1), TRUE)
    IN  [err |-> r.err,
         screen |-> r.screen,
         image |-> IF r.err = "" THEN <<Cell(0, 0)>> ELSE << >>,
         dev |-> [d EXCEPT !.object = (r.err = "")]]

\* Mutant: the new screen is created and the backend keeps its pointers.
device_resize_screen_kept(d, s, img, lines, span) ==
    LET sa == CellArea(0, 0, lines, span)
        ssize == CellSize * lines * span
        r == screen_create(ssize, sa, TRUE)
    IN  [err |-> r.err,
         memlen |-> ssize,
         screen |-> IF r.err = "" THEN r.screen ELSE s,
         image |-> IF r.err = ""
                   THEN [i \in 1..BufferCells(ssize) |-> Cell(0, 0)]
                   ELSE img,
         dev |-> d]

\* Device.resize_screen(): lines and span are y_cells and x_cells of
\* cmd_dimensions.
device_resize_screen(d, s, img, lines, span) ==
    LET sa == CellArea(0, 0, lines, span)
        ssize == CellSize * lines * span
        r == screen_create(ssize, sa, TRUE)
    IN  [err |-> r.err,
         memlen |-> ssize,
         screen |-> IF r.err = "" THEN r.screen ELSE s,
         image |-> IF r.err = ""
                   THEN [i \in 1..BufferCells(ssize) |-> Cell(0, 0)]
                   ELSE img,
         dev |-> IF r.err = ""
                 THEN [d EXCEPT !.cmd_image = "screen", !.cmd_view = "screen"]
                 ELSE d]

\* The cells of the display of the resize scenario.
ScenarioLines == 10

ScenarioSpan == 20

\* y_cells and x_cells of cmd_dimensions: the backend's to set.
DeviceLines == (0..MaxLines) \cup {ScenarioLines}

DeviceSpans == (0..MaxSpan) \cup {ScenarioSpan}

DeviceNew ==
    /\ ~so.exists
    /\ so' = device_new(dv).screen
    /\ image' = device_new(dv).image
    /\ dv' = device_new(dv).dev
    /\ op' = [NoOp EXCEPT !.name = "device_new", !.a1 = CellArea(0, 0, 1, 1),
                          !.memlen = CellSize, !.err = device_new(dv).err]
    /\ UNCHANGED <<areaVars, cacheVars, renderVars, controllerVars, mirrorVars,
                   boot, dd, dc, tx>>

DeviceResizeScreen ==
    /\ Created /\ so.device
    /\ \E lines \in DeviceLines, span \in DeviceSpans :
         /\ so' = device_resize_screen(dv, so, image, lines, span).screen
         /\ image' = device_resize_screen(dv, so, image, lines, span).image
         /\ dv' = device_resize_screen(dv, so, image, lines, span).dev
         /\ op' = [NoOp EXCEPT
                !.name = "resize_screen",
                !.a1 = CellArea(0, 0, lines, span),
                !.memlen = device_resize_screen(dv, so, image, lines, span).memlen,
                !.err = device_resize_screen(dv, so, image, lines, span).err]
    /\ UNCHANGED <<areaVars, cacheVars, renderVars, controllerVars, mirrorVars,
                   boot, dd, dc, tx>>

\* Device.screen.rewrite(target, source) of one cell: the target is a cell
\* of the screen or the one past its last line and span.
DeviceRewrite ==
    /\ Created /\ so.device
    /\ \E t \in 0..so.dimensions.lines, l \in 0..so.dimensions.span :
         LET target == CellArea(t, l, 1, 1)
             source == <<[isCell |-> TRUE, cell |-> SourceCell(1)]>>
             r == screen_rewrite(so, image, target, source)
         IN  /\ image' = r.image
             /\ op' = [NoOp EXCEPT !.name = "rewrite", !.a1 = target,
                                   !.source = source, !.before = image,
                                   !.written = r.written, !.err = r.err,
                                   !.consumed = r.consumed]
    /\ UNCHANGED <<so, areaVars, cacheVars, deviceVars>>

Rewrite ==
    /\ Created
    /\ \E target \in AreaArgs, source \in Sources :
         LET r == screen_rewrite(so, image, target, source)
         IN  /\ image' = r.image
             /\ op' = [NoOp EXCEPT !.name = "rewrite", !.a1 = target,
                                   !.source = source, !.before = image,
                                   !.written = r.written, !.err = r.err,
                                   !.consumed = r.consumed]
    /\ UNCHANGED <<so, areaVars, cacheVars, deviceVars>>

Select ==
    /\ Created
    /\ \E area \in AreaArgs :
         \E g \in GarbageFor(image,
                    mforeach(so.dimensions.span, select_selection(so, area))) :
            LET r == screen_select(so, image, area, g)
            IN  op' = [NoOp EXCEPT !.name = "select", !.a1 = area,
                                  !.before = image, !.result = r.result,
                                  !.read = r.read]
    /\ UNCHANGED <<so, image, areaVars, cacheVars, deviceVars>>

Replicate ==
    /\ Created
    /\ \E destination \in AreaArgs, source \in AreaArgs :
         \E g \in GarbageFor(image, mforeach(so.dimensions.span,
                        replicate_areas(so, destination, source).src)) :
            LET r == screen_replicate_cells(so, image, destination, source, g)
            IN  /\ image' = r.image
                /\ op' = [NoOp EXCEPT !.name = "replicate_cells",
                                      !.a1 = destination, !.a2 = source,
                                      !.before = image, !.read = r.read,
                                      !.written = r.written]
    /\ UNCHANGED <<so, areaVars, cacheVars, deviceVars>>

(***************************************************************************)
(* Glyph and Pixels objects written to a screen and selected from it.  An  *)
(* element of the source carries the type of the object it was built as.   *)
(***************************************************************************)
MaxCells == 2        \* cells of a source of Glyph and Pixels objects

GlyphWindows == {0, 1, (2 ^ CM_GLYPH_WINDOW_BITS) - 1}

CellObjects ==
    {[isCell |-> TRUE, type |-> "Glyph", cell |-> glyph_new(200 + w, w)] :
        w \in GlyphWindows}
    \cup {[isCell |-> TRUE, type |-> "Pixels", cell |-> pixels_new(-5)]}

CellSources == UNION {[1..n -> CellObjects] : n \in 1..MaxCells}

\* The areas of one or two cells of one line.
CellTargets ==
    {CellArea(t, l, 1, w) : t \in 0..MaxAreaOffset, l \in 0..MaxAreaOffset,
                            w \in 1..MaxCells}

\* Screen.rewrite(target, source) with Glyph and Pixels objects.
RewriteCells ==
    /\ Created
    /\ \E target \in CellTargets, source \in CellSources :
         LET r == screen_rewrite(so, image, target, source)
         IN  /\ image' = r.image
             /\ op' = [NoOp EXCEPT !.name = "rewrite", !.a1 = target,
                                   !.source = source, !.before = image,
                                   !.written = r.written, !.err = r.err,
                                   !.consumed = r.consumed]
    /\ UNCHANGED <<so, areaVars, cacheVars, deviceVars>>

\* Screen.select(area) after a rewrite.
SelectCells ==
    /\ so.exists /\ op.name = "rewrite"
    /\ \E area \in CellTargets :
         \E g \in GarbageFor(image,
                    mforeach(so.dimensions.span, select_selection(so, area))) :
            LET r == screen_select(so, image, area, g)
            IN  op' = [NoOp EXCEPT !.name = "select", !.a1 = area,
                                  !.before = image, !.result = r.result,
                                  !.read = r.read]
    /\ UNCHANGED <<so, image, areaVars, cacheVars, deviceVars>>

(***************************************************************************)
(* The area specification: aintersection applied to bounded operands.      *)
(***************************************************************************)
FieldValues == (0..MaxField) \cup {USHRT_MAX}

Areas == {CellArea(t, l, n, w) : t \in FieldValues, l \in FieldValues,
                                 n \in FieldValues, w \in FieldValues}

\* The operands of the intersection scenarios.
ScenarioOperands ==
    {[bounds |-> CellArea(0, 0, 5, 5), latter |-> CellArea(3, 3, 10, 10)],
     [bounds |-> CellArea(0, 0, 5, 5), latter |-> CellArea(6, 6, 1, 1)]}

Intersect ==
    /\ ~ir.done
    /\ ir' = [done |-> TRUE, area |-> area_intersect(ia.bounds, ia.latter)]
    /\ UNCHANGED <<ia, screenVars, cacheVars, deviceVars>>

(***************************************************************************)
(* The tile cache (xdg-xcb/display.c).                                     *)
(***************************************************************************)
MaxConfinement == 2  \* volume_root of the cache ranges over 1..MaxConfinement
MaxKeys == 2         \* number of distinct cell values acquired
MaxAcquires == 52    \* cache_acquire_tile calls per behaviour

MaxLongAcquires == 102  \* cache_acquire_tile calls per behaviour of SpecLocality
MaxEvictKeys == 9    \* SpecEviction: distinct cell values acquired
MaxAgain == 2        \* SpecEviction: acquires of a cell already acquired
MaxWalkAcquires == 51   \* cache_acquire_tile calls per behaviour of SpecWalk

\* The number of hits and passes at which prioritize rates a record.
PriorityThreshold == 50

cwidth == 7

cheight == 15

\* The cells acquired: glyphs 'A', 'C', ... with all other fields zero; with
\* two buckets they share a bucket.
CacheCells == {Cell(63 + (2 * k), 0) : k \in 1..MaxKeys}

\* A uint32_t as its four bytes, least significant first.
Bytes32(n) == [k \in 1..4 |-> (n \div (256 ^ (k - 1))) % 256]

RECURSIVE XOR8(_, _)
XOR8(a, b) ==
    IF a = 0 THEN b
    ELSE IF b = 0 THEN a
    ELSE ((a + b) % 2) + (2 * XOR8(a \div 2, b \div 2))

XOR32(a, b) == [k \in 1..4 |-> XOR8(a[k], b[k])]

\* Multiplication of uint32_t: the product modulo 2^32.
MUL32(a, b) ==
    LET c1 == a[1] * b[1]
        c2 == (a[1] * b[2]) + (a[2] * b[1]) + (c1 \div 256)
        c3 == (a[1] * b[3]) + (a[2] * b[2]) + (a[3] * b[1]) + (c2 \div 256)
        c4 == (a[1] * b[4]) + (a[2] * b[3]) + (a[3] * b[2]) + (a[4] * b[1])
              + (c3 \div 256)
    IN  <<c1 % 256, c2 % 256, c3 % 256, c4 % 256>>

MOD32(a, n) ==
    ((((((((a[4] % n) * 256) + a[3]) % n) * 256) + a[2]) % n) * 256 + a[1]) % n

\* The uint32_t words of struct Cell: codepoint, fill colour, window and
\* traits, glyph colour, line colour.
CellWords(c) ==
    <<Bytes32(c.c_codepoint), Bytes32(0), Bytes32(c.c_window), Bytes32(0), Bytes32(0)>>

\* 0x01020304 and 0xf1fade1f
HashWordFactor == <<4, 3, 2, 1>>

HashCodepointFactor == <<31, 222, 250, 241>>

RECURSIVE hash_words(_, _, _, _)
hash_words(uv, i, h, salt) ==
    IF i > Len(uv)
    THEN h
    ELSE IF uv[i] = Bytes32(0)
    THEN hash_words(uv, i + 1,
            XOR32(h, MUL32(Bytes32(salt + 1), HashWordFactor)), salt + 1)
    ELSE hash_words(uv, i + 1, XOR32(h, MUL32(uv[i], HashWordFactor)), salt)

hash_cell(hashsize, c) ==
    MOD32(hash_words(CellWords(c), 1,
              MUL32(Bytes32(c.c_codepoint), HashCodepointFactor), 0),
          hashsize)

\* The two cells acquired in the long runs.
LongCells == {Cell(65, 0), Cell(67, 0)}

\* The three cells of one bucket acquired in the runs of SpecWalk.
WalkCells == {Cell(65, 0), Cell(67, 0), Cell(69, 0)}

\* The cells acquired in the runs that fill the cache: EvictCell(1, k) are
\* the cells of odd codepoint from 'A', EvictCell(0, k) those of even
\* codepoint from 'B'; with two buckets the parities hash apart.
EvictCell(p, k) == Cell((IF p = 1 THEN 65 ELSE 66) + (2 * k), 0)

EvictCells == {EvictCell(p, k) : p \in 0..1, k \in 0..(MaxEvictKeys - 1)}

\* hash_cell for the cells acquired and every distribution size of the model.
BucketOf ==
    [c \in CacheCells \cup EvictCells |->
        [n \in 1..(MaxConfinement * MaxConfinement) |-> hash_cell(n, c)]]

\* Mutant: the line is counted from the first image.
structure_cell_index_flat(confinement, cell_index, tr) ==
    LET cs == confinement * confinement
        img == cell_index \div cs
    IN  [tr EXCEPT !.tr_cell = U16(cell_index % confinement),
                   !.tr_image = U16(img),
                   !.tr_line = U16(cell_index \div confinement)]

structure_cell_index(confinement, cell_index, tr) ==
    LET cs == confinement * confinement
        img == cell_index \div cs
    IN  [tr EXCEPT !.tr_cell = U16(cell_index % confinement),
                   !.tr_image = U16(img),
                   !.tr_line = U16((cell_index - (img * cs)) \div confinement)]

\* A record as memset leaves it.
ZeroRecord == [tr_hits |-> 0, tr_passes |-> 0, tr_rate |-> 0,
               tr_image |-> 0, tr_line |-> 0, tr_cell |-> 0,
               tr_key |-> Cell(0, 0)]

\* Buckets are numbered from 0; records[b + 1] is the array of bucket b.
device_initialize_cache(cell_width, cell_height, volume_root) ==
    LET dsize == volume_root * ((IF volume_root > 1 THEN volume_root ELSE 2) \div 2)
        asize == volume_root
    IN  [dtc_cell_width |-> cell_width,
         dtc_cell_height |-> cell_height,
         dtc_image_confinement |-> volume_root,
         dtc_image_limit |-> volume_root * volume_root * volume_root,
         dtc_image_next |-> dsize * asize,
         dtc_allocation_size |-> asize,
         dtc_distribution_size |-> dsize,
         dtc_record_counts |-> [b \in 1..dsize |-> 0],
         dtc_record_slots |-> [b \in 1..dsize |-> asize],
         dtc_records |-> [b \in 1..dsize |-> [k \in 1..asize |->
             structure_cell_index(volume_root, ((b - 1) * asize) + (k - 1), ZeroRecord)]]]

\* Integer division of C: truncation toward zero.
CDiv(a, b) ==
    LET q == (IF a < 0 THEN -a ELSE a) \div (IF b < 0 THEN -b ELSE b)
    IN  IF (a < 0) = (b < 0) THEN q ELSE -q

\* latter->tr_passes when prioritize divides by it: the hits when the
\* counters were exchanged for a record passed more often than hit.
prioritize_divisor(latter) ==
    IF latter.tr_hits < latter.tr_passes THEN latter.tr_hits ELSE latter.tr_passes

\* Mutant: the counters are reset to zero.
prioritize_rate_zeroed(latter) ==
    IF latter.tr_hits + latter.tr_passes < PriorityThreshold
    THEN latter
    ELSE LET negate == latter.tr_hits < latter.tr_passes
             hits == IF negate THEN -latter.tr_passes ELSE latter.tr_hits
         IN  [latter EXCEPT
                !.tr_rate = CDiv(latter.tr_rate
                                 + CDiv(hits, prioritize_divisor(latter)), 2),
                !.tr_hits = 0,
                !.tr_passes = 0]

\* The record latter as prioritize leaves it before the comparison of rates.
prioritize_rate(latter) ==
    IF latter.tr_hits + latter.tr_passes < PriorityThreshold
    THEN latter
    ELSE LET negate == latter.tr_hits < latter.tr_passes
             hits == IF negate THEN -latter.tr_passes ELSE latter.tr_hits
         IN  [latter EXCEPT
                !.tr_rate = CDiv(latter.tr_rate
                                 + CDiv(hits, prioritize_divisor(latter)), 2),
                !.tr_hits = 1,
                !.tr_passes = 1]

\* Mutant: the exchange moves the keys and the counters of the two records
\* but leaves the storage slots where they were.
prioritize_keys(records, f, l) ==
    LET latter == prioritize_rate(records[l])
        updated == [records EXCEPT ![l] = latter]
        keep(tr, slot) == [tr EXCEPT !.tr_image = slot.tr_image,
                                     !.tr_line = slot.tr_line,
                                     !.tr_cell = slot.tr_cell]
    IN  IF records[l].tr_hits + records[l].tr_passes < PriorityThreshold
        THEN [records |-> records, at |-> l, swapped |-> FALSE]
        ELSE IF latter.tr_rate - updated[f].tr_rate > 5
        THEN [records |-> [updated EXCEPT ![f] = keep(updated[l], updated[f]),
                                          ![l] = keep(updated[f], updated[l])],
              at |-> f, swapped |-> TRUE]
        ELSE [records |-> updated, at |-> l, swapped |-> FALSE]

\* Mutant: latter is copied over former and former is not kept.
prioritize_overwriting(records, f, l) ==
    LET latter == prioritize_rate(records[l])
        updated == [records EXCEPT ![l] = latter]
    IN  IF records[l].tr_hits + records[l].tr_passes < PriorityThreshold
        THEN [records |-> records, at |-> l, swapped |-> FALSE]
        ELSE IF latter.tr_rate - updated[f].tr_rate > 5
        THEN [records |-> [updated EXCEPT ![f] = updated[l]],
              at |-> f, swapped |-> TRUE]
        ELSE [records |-> updated, at |-> l, swapped |-> FALSE]

\* prioritize(records + f, records + l) on the array of a bucket (indices
\* from 1): the array afterwards and the index where latter is now.
prioritize(records, f, l) ==
    LET latter == prioritize_rate(records[l])
        updated == [records EXCEPT ![l] = latter]
    IN  IF records[l].tr_hits + records[l].tr_passes < PriorityThreshold
        THEN [records |-> records, at |-> l, swapped |-> FALSE]
        ELSE IF latter.tr_rate - updated[f].tr_rate > 5
        THEN [records |-> [updated EXCEPT ![f] = updated[l], ![l] = updated[f]],
              at |-> f, swapped |-> TRUE]
        ELSE [records |-> updated, at |-> l, swapped |-> FALSE]

\* Mutant: the records dropped give their storage slots back to the cache.
cache_allocate_tile_returning(t, bucket, c) ==
    LET b == bucket + 1
        rcount0 == t.dtc_record_counts[b]
        slots0 == t.dtc_record_slots[b]
        novacancy == t.dtc_image_next >= t.dtc_image_limit /\ rcount0 >= slots0
        \* No more space.
        rcount1 == IF novacancy THEN rcount0 - (rcount0 \div 4) ELSE rcount0
        full == rcount1 >= slots0
        d0 == t.dtc_image_limit - t.dtc_image_next
        d == IF d0 > t.dtc_allocation_size THEN t.dtc_allocation_size ELSE d0
        grow == full /\ d > 0
        reclaim == full /\ ~(d > 0)
        \* Make room: associate the new records with the storage slots.
        grown == t.dtc_records[b] \o
                 [k \in 1..d |-> structure_cell_index(t.dtc_image_confinement,
                                    t.dtc_image_next + (k - 1), ZeroRecord)]
        records == IF grow THEN grown ELSE t.dtc_records[b]
        \* Reclaim last.
        rcount == IF reclaim THEN rcount1 - 1 ELSE rcount1
        new == [records[rcount + 1] EXCEPT !.tr_hits = 1, !.tr_passes = 1,
                                           !.tr_rate = 1, !.tr_key = c]
    IN  [cache |-> [t EXCEPT
            !.dtc_record_counts[b] = rcount + 1,
            !.dtc_record_slots[b] = IF grow THEN slots0 + d ELSE slots0,
            !.dtc_image_next = IF grow THEN t.dtc_image_next + d
                               ELSE t.dtc_image_next - (rcount0 - rcount),
            !.dtc_records[b] = [records EXCEPT ![rcount + 1] = new]],
         at |-> rcount + 1,
         evicted |-> (rcount < rcount0),
         asserted |->
            /\ novacancy => t.dtc_image_next = t.dtc_image_limit
            /\ full => rcount1 = slots0
            /\ grow => \A k \in 1..d :
                  /\ grown[rcount1 + k].tr_image < t.dtc_image_confinement
                  /\ grown[rcount1 + k].tr_line < t.dtc_image_confinement
                  /\ grown[rcount1 + k].tr_cell < t.dtc_image_confinement]

\* Mutant: the quarter of the records is rounded up.
record_quarter_up(rcount) ==
    (rcount + 3) \div 4

\* rcount / 4 of cache_allocate_tile: size_t division, rounding down.
record_quarter(rcount) ==
    rcount \div 4

\* cache_allocate_tile: the cache with the record for c in place, the index
\* of that record in the bucket's array, whether records were dropped, and
\* whether every assert the call passed held.  realloc is taken to succeed.
cache_allocate_tile(t, bucket, c) ==
    LET b == bucket + 1
        rcount0 == t.dtc_record_counts[b]
        slots0 == t.dtc_record_slots[b]
        novacancy == t.dtc_image_next >= t.dtc_image_limit /\ rcount0 >= slots0
        \* No more space.
        rcount1 == IF novacancy THEN rcount0 - record_quarter(rcount0) ELSE rcount0
        full == rcount1 >= slots0
        d0 == t.dtc_image_limit - t.dtc_image_next
        d == IF d0 > t.dtc_allocation_size THEN t.dtc_allocation_size ELSE d0
        grow == full /\ d > 0
        reclaim == full /\ ~(d > 0)
        \* Make room: associate the new records with the storage slots.
        grown == t.dtc_records[b] \o
                 [k \in 1..d |-> structure_cell_index(t.dtc_image_confinement,
                                    t.dtc_image_next + (k - 1), ZeroRecord)]
        records == IF grow THEN grown ELSE t.dtc_records[b]
        \* Reclaim last.
        rcount == IF reclaim THEN rcount1 - 1 ELSE rcount1
        new == [records[rcount + 1] EXCEPT !.tr_hits = 1, !.tr_passes = 1,
                                           !.tr_rate = 1, !.tr_key = c]
    IN  [cache |-> [t EXCEPT
            !.dtc_record_counts[b] = rcount + 1,
            !.dtc_record_slots[b] = IF grow THEN slots0 + d ELSE slots0,
            !.dtc_image_next = IF grow THEN t.dtc_image_next + d ELSE t.dtc_image_next,
            !.dtc_records[b] = [records EXCEPT ![rcount + 1] = new]],
         at |-> rcount + 1,
         evicted |-> (rcount < rcount0),
         asserted |->
            /\ novacancy => t.dtc_image_next = t.dtc_image_limit
            /\ full => rcount1 = slots0
            /\ grow => \A k \in 1..d :
                  /\ grown[rcount1 + k].tr_image < t.dtc_image_confinement
                  /\ grown[rcount1 + k].tr_line < t.dtc_image_confinement
                  /\ grown[rcount1 + k].tr_cell < t.dtc_image_confinement]

\* The walk of cache_acquire_tile_record over the records of a bucket;
\* i counts from 0 as in the code, st is [records, at, swapped]: at is the
\* index of the matching record (0 when there is none).
RECURSIVE acquire_walk(_, _, _, _)
acquire_walk(st, i, rcount, c) ==
    IF i >= rcount
    THEN [st EXCEPT !.visited = rcount]
    ELSE LET current == i + 1
             previous == IF i = 0 THEN 1 ELSE i
         IN  IF st.records[current].tr_key = c
             THEN LET p == prioritize(
                          [st.records EXCEPT ![current].tr_hits = @ + 1],
                          previous, current)
                  IN  [records |-> p.records, at |-> p.at,
                       swapped |-> st.swapped \/ p.swapped, visited |-> i + 1]
             ELSE LET p == prioritize(
                          [st.records EXCEPT ![current].tr_passes = @ + 1],
                          previous, current)
                  IN  acquire_walk([st EXCEPT !.records = p.records,
                                              !.swapped = st.swapped \/ p.swapped],
                                   i + 1, rcount, c)

\* The physical slot a record is bound to.
SlotOf(t, tr) ==
    (tr.tr_image * t.dtc_image_confinement * t.dtc_image_confinement)
    + (tr.tr_line * t.dtc_image_confinement) + tr.tr_cell

\* The result of cache_acquire_tile_record once the walk w of bucket r is
\* done: [cache, bucket, at, rendered, evicted, swapped, visited]; the record
\* returned is cache.dtc_records[bucket + 1][at].
acquire_allocated(w, r, a) ==
    [cache |-> a.cache, bucket |-> r, at |-> a.at, rendered |-> TRUE,
     evicted |-> a.evicted, swapped |-> w.swapped, visited |-> w.visited,
     asserted |-> a.asserted]

acquire_walked(t, r, w, c) ==
    IF w.at # 0
    THEN [cache |-> [t EXCEPT !.dtc_records[r + 1] = w.records],
          bucket |-> r, at |-> w.at, rendered |-> FALSE,
          evicted |-> FALSE, swapped |-> w.swapped, visited |-> w.visited,
          asserted |-> TRUE]
    ELSE acquire_allocated(w, r,
            cache_allocate_tile([t EXCEPT !.dtc_records[r + 1] = w.records], r, c))

acquire_bucket(t, r, c) ==
    acquire_walked(t, r,
        acquire_walk([records |-> t.dtc_records[r + 1], at |-> 0,
                      swapped |-> FALSE, visited |-> 0],
                     0, t.dtc_record_counts[r + 1], c),
        c)

cache_acquire_tile_record(t, c) ==
    acquire_bucket(t, BucketOf[c][t.dtc_distribution_size], c)

\* cache_render_tile: render_tile draws the key of tr at the slot of tr.
cache_render_tile(t, px, tr) == [px EXCEPT ![SlotOf(t, tr)] = tr.tr_key]

\* cache_acquire_tile: the storage image and the pixel offsets of the tile
\* of the record that a, the result of cache_acquire_tile_record, names.
acquired_tile(a, tr) ==
    [acquired |-> a,
     record |-> tr,
     tile |-> [image |-> tr.tr_image,
               xtile |-> tr.tr_cell * a.cache.dtc_cell_width,
               ytile |-> tr.tr_line * a.cache.dtc_cell_height]]

acquired_record(a) == acquired_tile(a, a.cache.dtc_records[a.bucket + 1][a.at])

cache_acquire_tile(t, c) == acquired_record(cache_acquire_tile_record(t, c))

NoTile == [image |-> -1, xtile |-> -1, ytile |-> -1]

NoPixels == Cell(-1, 0)

NoAcquire == [n |-> 0, cell |-> Cell(0, 0), tile |-> NoTile, rendered |-> FALSE,
              evicted |-> FALSE, swapped |-> FALSE, visited |-> 0, bucket |-> 0,
              asserted |-> TRUE]

\* The cache, the storage images and the record of the call after a call
\* of cache_acquire_tile for c that returned r.
Returned(c, r) ==
    /\ tc' = r.acquired.cache
    /\ tiles' = IF r.acquired.rendered
                THEN cache_render_tile(r.acquired.cache, tiles, r.record)
                ELSE tiles
    /\ acq' = [n |-> acq.n + 1, cell |-> c, tile |-> r.tile,
               rendered |-> r.acquired.rendered, evicted |-> r.acquired.evicted,
               swapped |-> r.acquired.swapped, visited |-> r.acquired.visited,
               bucket |-> r.acquired.bucket, asserted |-> r.acquired.asserted]

\* The state after a call of cache_acquire_tile for c that returned r.
Acquired(c, r) ==
    /\ Returned(c, r)
    /\ hist' = [first |-> IF hist.first[c] = NoTile
                          THEN [hist.first EXCEPT ![c] = r.tile]
                          ELSE hist.first,
                rendered |-> IF r.acquired.rendered /\ hist.rendered[c] < 2
                             THEN [hist.rendered EXCEPT ![c] = @ + 1]
                             ELSE hist.rendered,
                evicted |-> hist.evicted \/ r.acquired.evicted,
                swapped |-> hist.swapped \/ r.acquired.swapped]

\* The locality history after a call for c that returned r: the number of
\* acquires of c (up to one more than the threshold) and the position in
\* its bucket at which c was first inserted.
Located(c, r) ==
    loc' = [count |-> IF loc.count[c] <= PriorityThreshold
                      THEN [loc.count EXCEPT ![c] = @ + 1]
                      ELSE loc.count,
            inserted |-> IF loc.inserted[c] = 0
                         THEN [loc.inserted EXCEPT ![c] = r.acquired.at]
                         ELSE loc.inserted]

\* One call of cache_acquire_tile by the renderer.
Acquire ==
    /\ acq.n < MaxAcquires
    /\ \E c \in CacheCells : Acquired(c, cache_acquire_tile(tc, c))
    /\ UNCHANGED <<loc, ev, areaVars, screenVars, deviceVars>>

\* The same call in the long runs of the locality specification.
AcquireLong ==
    /\ acq.n < MaxLongAcquires
    /\ \E c \in LongCells :
         /\ Acquired(c, cache_acquire_tile(tc, c))
         /\ Located(c, cache_acquire_tile(tc, c))
    /\ UNCHANGED <<ev, areaVars, screenVars, deviceVars>>

\* The call for one of three cells of a bucket.
AcquireWalk ==
    /\ acq.n < MaxWalkAcquires
    /\ \E c \in WalkCells : Returned(c, cache_acquire_tile(tc, c))
    /\ UNCHANGED <<hist, loc, ev, areaVars, screenVars, deviceVars>>

\* The call for a cell not acquired before, of either parity.
AcquireFresh ==
    /\ ev.fresh[0] + ev.fresh[1] < MaxEvictKeys
    /\ \E p \in 0..1 :
         /\ Returned(EvictCell(p, ev.fresh[p]),
                     cache_acquire_tile(tc, EvictCell(p, ev.fresh[p])))
         /\ ev' = [ev EXCEPT !.fresh[p] = @ + 1]
    /\ UNCHANGED <<hist, loc, areaVars, screenVars, deviceVars>>

\* The call for the cell of either parity that was acquired last.
AcquireAgain ==
    /\ ev.again < MaxAgain
    /\ \E p \in 0..1 :
         /\ ev.fresh[p] > 0
         /\ Returned(EvictCell(p, ev.fresh[p] - 1),
                     cache_acquire_tile(tc, EvictCell(p, ev.fresh[p] - 1)))
    /\ ev' = [ev EXCEPT !.again = @ + 1]
    /\ UNCHANGED <<hist, loc, areaVars, screenVars, deviceVars>>

(***************************************************************************)
(* Rendering of the xdg-xcb device (xdg-xcb/implementation.c): the areas   *)
(* invalidated by the application are drawn by device_render_pixels.       *)
(***************************************************************************)
MaxViewLines == 3    \* cmd_view: lines in 1..MaxViewLines
MaxViewSpan == 3     \* cmd_view: span in 1..MaxViewSpan
MaxInvalids == 1     \* areas invalidated between two renders
MaxRendered == 2     \* mirror: areas invalidated before the frame is dispatched

\* The images of a view of n cells: one glyph everywhere, or two glyphs
\* alternating.
RenderImages(n) ==
    {[i \in 1..n |-> Cell(65, 0)], [i \in 1..n |-> Cell(65 + (i % 2), 0)]}

\* The areas of at least one cell inside of the view.
ViewAreas(view) ==
    {CellArea(t, l, n, w) : t \in 0..(view.lines - 1), l \in 0..(view.span - 1),
                            n \in 1..MaxViewLines, w \in 1..MaxViewSpan}
    \cap {a \in [top_offset : 0..MaxViewLines, left_offset : 0..MaxViewSpan,
                  lines : 1..MaxViewLines, span : 1..MaxViewSpan] :
            /\ a.top_offset + a.lines <= view.lines
            /\ a.left_offset + a.span <= view.span}

NoRender == [done |-> FALSE, areas |-> << >>, shown |-> << >>, acquired |-> 0,
             read |-> << >>]

device_invalidate_cells(x, area) == [x EXCEPT !.invalids = Append(@, area)]

\* The cells of one invalidated area in the order the loop draws them: each
\* is laid out and shown by pango_cairo_show_layout.
render_area(d, area) ==
    [k \in 1..Len(mforeach(d.cmd_view.span, area)) |->
        d.cmd_image[mforeach(d.cmd_view.span, area)[k] + 1]]

RECURSIVE render_invalids(_, _, _)
render_invalids(d, invalids, i) ==
    IF i > Len(invalids)
    THEN << >>
    ELSE render_area(d, invalids[i]) \o render_invalids(d, invalids, i + 1)

\* The indices of cmd_image that the mforeach loops of a render read for
\* the areas from index i on: neither backend clips an area to the view.
RECURSIVE render_reads(_, _, _)
render_reads(d, areas, i) ==
    IF i > Len(areas)
    THEN << >>
    ELSE mforeach(d.cmd_view.span, areas[i]) \o render_reads(d, areas, i + 1)

\* The device with the memory that the reads of a render reach: cmd_image,
\* and behind it what g decides.
ReachedMemory(d, reads, g) ==
    LET n == c_max(Len(d.cmd_image),
                   IF reads = << >> THEN 0
                   ELSE 1 + (CHOOSE m \in {reads[k] : k \in 1..Len(reads)} :
                                \A k \in 1..Len(reads) : reads[k] <= m))
    IN  [d EXCEPT !.cmd_image = [i \in 1..n |-> ReadCell(d.cmd_image, i - 1, g)]]

\* device_render_pixels: shown is the sequence of cells handed to the
\* rasterizer, acquired the number of cache_acquire_tile calls made.
device_render_pixels(d, x) ==
    [xi |-> [x EXCEPT !.invalids = << >>],
     areas |-> x.invalids,
     shown |-> render_invalids(d, x.invalids, 1),
     acquired |-> 0]

\* Device.invalidate_cells(area)
InvalidateCells ==
    /\ Len(xi.invalids) < MaxInvalids
    /\ \E area \in ViewAreas(xd.cmd_view) :
         xi' = device_invalidate_cells(xi, area)
    /\ rp' = NoRender
    /\ UNCHANGED <<boot, objectVars, xd, controllerVars, mirrorVars, areaVars, screenVars, cacheVars>>

\* Device.render_image()
RenderPixels ==
    /\ Len(xi.invalids) > 0
    /\ \E g \in GarbageFor(xd.cmd_image, render_reads(xd, xi.invalids, 1)) :
         /\ xi' = device_render_pixels(
                      ReachedMemory(xd, render_reads(xd, xi.invalids, 1), g), xi).xi
         /\ rp' = [done |-> TRUE,
                   areas |-> device_render_pixels(
                      ReachedMemory(xd, render_reads(xd, xi.invalids, 1), g), xi).areas,
                   shown |-> device_render_pixels(
                      ReachedMemory(xd, render_reads(xd, xi.invalids, 1), g), xi).shown,
                   acquired |-> device_render_pixels(
                      ReachedMemory(xd, render_reads(xd, xi.invalids, 1), g), xi).acquired,
                   read |-> render_reads(xd, xi.invalids, 1)]
    /\ UNCHANGED <<boot, objectVars, xd, controllerVars, mirrorVars, areaVars, screenVars, cacheVars>>

(***************************************************************************)
(* Controller: the key identifiers of controller.h, the events of the      *)
(* xdg-xcb device (xdg-xcb/controller.c) and the Device methods that       *)
(* report them to the application (module.c).                              *)
(***************************************************************************)
MaxPixel == 1        \* button press: event_x and event_y

FunctionKey_Offset == -3840

FunctionKey_Number(X) == (-X) + FunctionKey_Offset

FunctionKey_Identifier(X) == FunctionKey_Offset - X

ScreenCursorKey_Offset == -2816

ScreenCursorKey_Number(X) == (-X) + ScreenCursorKey_Offset

ScreenCursorKey_Identifier(X) == ScreenCursorKey_Offset - X

InstructionKey_Offset == -40960

InstructionKey_Number(X) == (-X) + InstructionKey_Offset

InstructionKey_Identifier(X) == InstructionKey_Offset - X

\* enum ApplicationInstruction: ai_void is 0, the instruction at index i of
\* the list has the value i, ai_sentinel follows the last.
ApplicationInstructions ==
    <<"session/status", "session/clone", "session/create", "session/close",
      "session/save", "session/synchronize", "session/interrupt",
      "session/quit", "session/switch", "session/restore",
      "frame/status", "frame/clone", "frame/create", "frame/close",
      "frame/select", "frame/next", "frame/previous", "frame/transpose",
      "resource/status", "resource/clone", "resource/create",
      "resource/close", "resource/relocate", "resource/cycle",
      "resource/open", "resource/save", "resource/reload",
      "elements/status", "elements/clone", "elements/seek", "elements/find",
      "elements/next", "elements/previous", "elements/undo", "elements/redo",
      "elements/select", "elements/insert", "elements/delete",
      "elements/selectall", "elements/hover",
      "screen/refresh", "screen/resize", "view/scroll", "view/pan",
      "time/elapsed">>

ai_sentinel == Len(ApplicationInstructions) + 1

ApplicationInstruction(name) ==
    CHOOSE i \in 1..Len(ApplicationInstructions) : ApplicationInstructions[i] = name

ai_session_close == ApplicationInstruction("session/close")

ai_view_scroll == ApplicationInstruction("view/scroll")

\* enum KeyModifiers from km_imaginary to km_hyper and ModifierKey: the key
\* identifier of each.
km_imaginary == 1

km_sentinel == 7

ModifierKey(km) == <<8520, 8679, 8963, 8984, 8997, 10022>>[km]

\* The values of st_keys that interpret_modifiers gives for no modifier and
\* for "Shift".
ModifierStates == {0, 4}

\* The counts of function keys and of screen cursor keys that Device.key
\* names.
FunctionKeys == 32

CursorKeys == 32

KTab == 8677

KSpace == 9251

\* struct ControllerStatus
ControllerStatus(dispatch, quantity, keys, text_length, top, left, receiver) ==
    [st_dispatch |-> dispatch, st_quantity |-> quantity, st_keys |-> keys,
     st_text_length |-> text_length, st_top |-> top, st_left |-> left,
     st_receiver |-> receiver]

\* The zeroed status.
NoStatus == ControllerStatus(0, 0, 0, 0, 0, 0, "NULL")

(***************************************************************************)
(* xdg-xcb: interpret_strike and device_wait_event.                        *)
(***************************************************************************)
XKB_KEY_Tab == 65289

XKB_KEY_space == 32

XKB_KEY_asciitilde == 126

XKB_KEY_F1 == 65470

XKB_KEY_F35 == 65504

\* The keysym of Shift_L, which no case of interpret_strike names.
XKB_KEY_Shift_L == 65505

\* interpret_strike for the keysyms of the model: Tab and space out of the
\* named cases, and the default case.  ks is unsigned, the identifier of a
\* function key is its conversion to int32_t, which is the difference.
interpret_strike(ks) ==
    IF ks = XKB_KEY_Tab
    THEN KTab
    ELSE IF ks = XKB_KEY_space
    THEN KSpace
    ELSE IF ks >= XKB_KEY_F1 /\ ks <= XKB_KEY_F35
    THEN FunctionKey_Identifier((ks - XKB_KEY_F1) + 1)
    ELSE IF ks > XKB_KEY_space /\ ks <= XKB_KEY_asciitilde
    THEN ks
    ELSE -1

\* xkb_keysym_to_upper, and toupper, on the symbols of the model.
xkb_keysym_to_upper(ks) == IF ks >= 97 /\ ks <= 122 THEN ks - 32 ELSE ks

\* The events xcb_wait_for_event delivers.  A key press carries the keysym
\* of the key, the length of its text, and the codepoint of its text in
\* the empty state (0 when it has none); closed is the NULL event of a
\* connection in error.
KeyPress(sym, text, base) ==
    [type |-> "XCB_KEY_PRESS", sym |-> sym, text |-> text, base |-> base]

ButtonPress(detail, x, y) ==
    [type |-> "XCB_BUTTON_PRESS", detail |-> detail, event_x |-> x, event_y |-> y]

ClientMessage(data) == [type |-> "XCB_CLIENT_MESSAGE", data |-> data]

Expose(count) == [type |-> "XCB_EXPOSE", count |-> count]

StateNotify(mods) == [type |-> "XCB_XKB_STATE_NOTIFY", mods |-> mods]

KeyRelease == [type |-> "XCB_KEY_RELEASE"]

ConnectionClosed(error) == [type |-> "closed", xcb_error |-> error]

\* The branch of device_wait_event for one event: the status afterwards,
\* whether the function returns (or waits again), and whether the branch
\* assigned st_dispatch, st_quantity and st_text_length.
wait_event_branch(st, e) ==
    IF e.type = "closed"
    THEN [status |-> [st EXCEPT
              !.st_dispatch = InstructionKey_Identifier(ai_session_close),
              !.st_text_length = 0, !.st_quantity = 1],
          returns |-> TRUE, assigned |-> TRUE]
    ELSE IF e.type = "XCB_KEY_RELEASE"
    THEN [status |-> [st EXCEPT !.st_dispatch = -2, !.st_text_length = 0,
                                !.st_quantity = 0],
          returns |-> FALSE, assigned |-> TRUE]
    ELSE IF e.type = "XCB_EXPOSE"
    THEN [status |-> st, returns |-> (e.count = 0), assigned |-> FALSE]
    ELSE IF e.type = "XCB_CLIENT_MESSAGE"
    THEN [status |-> [st EXCEPT !.st_dispatch = -(e.data), !.st_text_length = 0,
                                !.st_quantity = 1],
          returns |-> TRUE, assigned |-> TRUE]
    ELSE IF e.type = "XCB_BUTTON_PRESS"
    THEN [status |-> [st EXCEPT
              !.st_left = e.event_x, !.st_top = e.event_y, !.st_text_length = 0,
              !.st_dispatch = IF e.detail \in {4, 5}
                              THEN InstructionKey_Identifier(ai_view_scroll)
                              ELSE ScreenCursorKey_Identifier(e.detail),
              !.st_quantity = IF e.detail = 4 THEN 3
                              ELSE IF e.detail = 5 THEN -3 ELSE 1],
          returns |-> TRUE, assigned |-> TRUE]
    ELSE IF e.type = "XCB_KEY_PRESS"
    THEN [status |-> [st EXCEPT
              !.st_quantity = 1,
              !.st_dispatch =
                  IF interpret_strike(xkb_keysym_to_upper(e.sym)) = -1
                     /\ e.text > 0 /\ e.base > 0
                  THEN xkb_keysym_to_upper(e.base)
                  ELSE interpret_strike(xkb_keysym_to_upper(e.sym)),
              !.st_text_length = e.text],
          \* No fallback symbol available: presumed not a key.
          returns |-> ~(interpret_strike(xkb_keysym_to_upper(e.sym)) = -1
                        /\ ~(e.text > 0 /\ e.base > 0)),
          assigned |-> TRUE]
    ELSE \* the XKB extension event
         [status |-> [st EXCEPT !.st_keys = e.mods, !.st_dispatch = -2,
                                !.st_text_length = 0, !.st_quantity = 0],
          returns |-> FALSE, assigned |-> TRUE]

\* device_wait_event over the events that arrive, from events[i] on: the
\* status when it returns, the event it returned for, and its return value
\* (-1 while it still waits at the end of events).
RECURSIVE device_wait_event(_, _, _)
device_wait_event(st, events, i) ==
    IF i > Len(events)
    THEN [status |-> st, event |-> KeyRelease, returned |-> -1, assigned |-> FALSE]
    ELSE IF wait_event_branch(st, events[i]).returns
    THEN [status |-> wait_event_branch(st, events[i]).status,
          event |-> events[i], returned |-> 0,
          assigned |-> wait_event_branch(st, events[i]).assigned]
    ELSE device_wait_event(wait_event_branch(st, events[i]).status, events, i + 1)

\* The status of the xdg-xcb device when device_manage_terminal has set it
\* up: malloc'd memory of which st_text_length alone is assigned, zeroed or
\* holding what the memory held before.
MallocStatuses ==
    {NoStatus, ControllerStatus(-2, 0, 4, 0, MaxPixel, MaxPixel, "receiver")}

\* The events that make device_wait_event return.
ReturningEvents ==
    {KeyPress(sym, 0, 0) : sym \in XKB_KEY_F1..XKB_KEY_F35}
    \cup {KeyPress(XKB_KEY_Tab, 1, 9), KeyPress(97, 1, 97),
          KeyPress(XKB_KEY_Shift_L + 1, 1, 97)}
    \cup {ButtonPress(detail, MaxPixel, MaxPixel) : detail \in 1..CursorKeys}
    \cup {ClientMessage(-InstructionKey_Identifier(ai)) :
            ai \in 1..(ai_sentinel - 1)}
    \cup {Expose(0)}
    \cup {ConnectionClosed(error) :
            error \in {"XCB_CONN_ERROR", "XCB_CONN_CLOSED_EXT_NOTSUPPORTED"}}

\* The events after which device_wait_event waits again.
PassingEvents ==
    {StateNotify(mods) : mods \in ModifierStates}
    \cup {KeyRelease, Expose(1), KeyPress(XKB_KEY_Shift_L, 0, 0)}

\* What arrives during one call: at most one passing event, then the event
\* that ends the wait.
EventQueues ==
    {<<e>> : e \in ReturningEvents}
    \cup {<<p, e>> : p \in PassingEvents, e \in ReturningEvents}

(***************************************************************************)
(* module.c: Device.transfer_event, Device.key.                            *)
(***************************************************************************)
\* A connection that failed on a socket error leaves the error in errno.
ECONNRESET == 104

NoTransfer == [called |-> FALSE, raised |-> FALSE, value |-> 0,
               event |-> KeyRelease, assigned |-> FALSE]

NoIntegration == [called |-> FALSE, raised |-> FALSE]

NoKey == [called |-> FALSE, key |-> [form |-> "", value |-> 0], modstr |-> << >>]

\* Device.transfer_event() on the xdg-xcb device: r is what the device
\* returned, e the value of errno after the call.
device_transfer_event(w, e) ==
    IF w.returned = 0 /\ e # 0
    THEN [te |-> [called |-> TRUE, raised |-> TRUE, value |-> 0, event |-> w.event,
                  assigned |-> w.assigned],
          errno |-> 0]
    ELSE [te |-> [called |-> TRUE, raised |-> FALSE, value |-> w.returned,
                  event |-> w.event, assigned |-> w.assigned],
          errno |-> e]

\* The modifier representations of st_keys in identifier order, "-" when
\* there is none.
RECURSIVE key_modifiers(_, _)
key_modifiers(st_keys, km) ==
    IF km >= km_sentinel
    THEN << >>
    ELSE (IF (st_keys \div (2 ^ km)) % 2 = 1 THEN <<ModifierKey(km)>> ELSE << >>)
         \o key_modifiers(st_keys, km + 1)

key_modstr(st_keys) ==
    IF key_modifiers(st_keys, km_imaginary) = << >>
    THEN <<45>>
    ELSE key_modifiers(st_keys, km_imaginary)

\* Device.key(ext): the parts of the string built, the key and the
\* modifiers (ext follows them unchanged).
device_key(ctl_st) ==
    LET d == ctl_st.st_dispatch
        fn == FunctionKey_Number(d)
        mbutton == ScreenCursorKey_Number(d)
        modstr == key_modstr(ctl_st.st_keys)
    IN  IF d >= 0
        THEN [called |-> TRUE, key |-> [form |-> "codepoint", value |-> d],
              modstr |-> modstr]
        ELSE IF InstructionKey_Number(d) \in 1..(ai_sentinel - 1)
        THEN [called |-> TRUE,
              key |-> [form |-> "instruction", value |-> InstructionKey_Number(d)],
              modstr |-> modstr]
        ELSE IF d = -3
        THEN [called |-> TRUE,
              key |-> [form |-> "instruction",
                       value |-> ApplicationInstruction("screen/resize")],
              modstr |-> <<45>>]
        ELSE IF d = -2
        THEN [called |-> TRUE,
              key |-> [form |-> "instruction",
                       value |-> ApplicationInstruction("session/synchronize")],
              modstr |-> modstr]
        ELSE IF fn > 0 /\ fn <= FunctionKeys
        THEN [called |-> TRUE, key |-> [form |-> "F", value |-> fn],
              modstr |-> modstr]
        ELSE IF mbutton > 0 /\ mbutton <= CursorKeys
        THEN [called |-> TRUE, key |-> [form |-> "M", value |-> mbutton],
              modstr |-> modstr]
        ELSE [called |-> TRUE, key |-> [form |-> "number", value |-> d],
              modstr |-> modstr]

\* Device.transfer_event() on the xdg-xcb device while the events of one of
\* queues arrive.
Transferred(queues) ==
    /\ \E events \in queues :
         \E e \in (IF events[Len(events)].type = "closed"
                   THEN {errno, ECONNRESET} ELSE {errno}) :
           /\ device_wait_event(ctl, events, 1).returned = 0
           /\ ctl' = device_wait_event(ctl, events, 1).status
           /\ te' = device_transfer_event(device_wait_event(ctl, events, 1), e).te
           /\ errno' = device_transfer_event(device_wait_event(ctl, events, 1), e).errno
    /\ ko' = NoKey
    /\ ic' = NoIntegration
    /\ UNCHANGED <<boot, objectVars, snap, mirrorVars, renderVars, areaVars, screenVars, cacheVars>>

TransferEvent == Transferred(EventQueues)

\* Device.key(ext)
Key ==
    /\ te.called
    /\ ko' = device_key(ctl)
    /\ UNCHANGED <<boot, objectVars, ctl, errno, te, snap, ic, mirrorVars, renderVars, areaVars, screenVars, cacheVars>>

(***************************************************************************)
(* module.c: Device.controls_snapshot, Device.integrate_controls.          *)
(***************************************************************************)
\* The bytes of a struct ControllerStatus, field by field.
StatusBytes(st) ==
    <<st.st_dispatch, st.st_quantity, st.st_keys, st.st_text_length,
      st.st_top, st.st_left, st.st_receiver>>

\* sizeof(struct ControllerStatus) in fields.
StatusSize == Len(StatusBytes(NoStatus))

NoSnapshot == [taken |-> FALSE, bytes |-> << >>, of |-> NoStatus,
               overridden |-> FALSE]

\* Device.controls_snapshot([l]): args is << >> or <<l>>.  The status
\* afterwards and the bytes returned.
device_controls_snapshot(st, args) ==
    LET lcurrent == st.st_dispatch
        l == IF args = << >> THEN lcurrent ELSE args[1]
    IN  [status |-> [st EXCEPT !.st_dispatch = lcurrent, !.st_receiver = "NULL"],
         bytes |-> StatusBytes([st EXCEPT !.st_dispatch = l,
                                          !.st_receiver = "NULL"])]

\* Mutant: only the dispatch of the snapshot is integrated.
device_integrate_controls_dispatch(st, buf) ==
    IF Len(buf) < StatusSize
    THEN [status |-> st, raised |-> TRUE]
    ELSE [status |-> [st EXCEPT !.st_dispatch = buf[1], !.st_receiver = "NULL"],
          raised |-> FALSE]

\* Device.integrate_controls(snapshot): the status afterwards and whether
\* ValueError was raised.
device_integrate_controls(st, buf) ==
    IF Len(buf) < StatusSize
    THEN [status |-> st, raised |-> TRUE]
    ELSE [status |-> [ControllerStatus(buf[1], buf[2], buf[3], buf[4],
                                       buf[5], buf[6], buf[7])
                        EXCEPT !.st_receiver = "NULL"],
          raised |-> FALSE]

NoTransmit == [called |-> FALSE, receiver |-> "NULL"]

\* Device.transmit(bytes): Device_Transmit calls cmd_status->st_receiver
\* with the context and the bytes.
device_transmit(st) == [called |-> TRUE, receiver |-> st.st_receiver]

\* Device.transmit(bytes)
Transmit ==
    /\ tx' = device_transmit(ctl)
    /\ UNCHANGED <<boot, dd, dv, dc, controllerVars, mirrorVars, renderVars,
                   areaVars, screenVars, cacheVars>>

\* The events of the runs that take and integrate snapshots.
FewQueues ==
    {<<KeyPress(XKB_KEY_F1, 0, 0)>>, <<KeyPress(97, 1, 97)>>,
     <<StateNotify(4), ButtonPress(1, MaxPixel, MaxPixel)>>,
     <<ConnectionClosed("XCB_CONN_ERROR")>>}

TransferFew == Transferred(FewQueues)

\* The dispatch values given to Device.controls_snapshot.
Overrides == {<< >>, <<InstructionKey_Identifier(ai_session_close)>>}

\* Device.controls_snapshot([l])
ControlsSnapshot ==
    /\ \E args \in Overrides :
         /\ ctl' = device_controls_snapshot(ctl, args).status
         /\ snap' = [taken |-> TRUE,
                     bytes |-> device_controls_snapshot(ctl, args).bytes,
                     of |-> ctl,
                     overridden |-> (args # << >>)]
    /\ ic' = NoIntegration
    /\ UNCHANGED <<boot, objectVars, errno, te, ko, mirrorVars, renderVars, areaVars, screenVars, cacheVars>>

\* Device.integrate_controls(snapshot) with the snapshot taken last, whole
\* or short of its last byte.
IntegrateControls ==
    /\ snap.taken
    /\ \E n \in {StatusSize - 1, StatusSize} :
         /\ ctl' = device_integrate_controls(ctl, SubSeq(snap.bytes, 1, n)).status
         /\ ic' = [called |-> TRUE,
                   raised |-> device_integrate_controls(
                                  ctl, SubSeq(snap.bytes, 1, n)).raised]
    /\ UNCHANGED <<boot, objectVars, errno, te, ko, snap, mirrorVars, renderVars, areaVars, screenVars, cacheVars>>

(***************************************************************************)
(* Mirror device (mirror/implementation.c): the controls channel read by   *)
(* device_transfer_event and the display channel written by                *)
(* device_render_image.                                                    *)
(***************************************************************************)
\* sizeof(cm_event_text): sizeof(struct MatrixParameters) + 16.
TextCapacity == 80

\* The frames of the controls channel: a status, the u16 length of the
\* text, and where the channel ends.  part is "whole" when the frame
\* arrives whole; "status", "length" or "text" when end-of-file comes
\* inside that part after at of its units (fields of the status, bytes of
\* the length or of the text); "failed" when read fails with -1 before the
\* first byte of the frame.
ControlFrame(status, textlength, part, at) ==
    [type |-> "frame", status |-> status, textlength |-> textlength,
     part |-> part, at |-> at]

FrameStatuses ==
    {ControllerStatus(FunctionKey_Identifier(1), 2, 4, 0, 0, 0, "NULL"),
     ControllerStatus(65, 2, 0, 1, MaxPixel, MaxPixel, "NULL")}

TextLengths == {0, 1, TextCapacity, USHRT_MAX}

ControlFrames ==
    {ControlFrame(s, n, "whole", 0) : s \in FrameStatuses, n \in TextLengths}
    \cup {ControlFrame(s, n, "status", k) :
            s \in FrameStatuses, n \in TextLengths, k \in 0..(StatusSize - 1)}
    \cup {ControlFrame(s, n, "length", k) :
            s \in FrameStatuses, n \in TextLengths, k \in 0..1}
    \cup UNION {{ControlFrame(s, n, "text", k) :
                    s \in FrameStatuses, k \in {0, n - 1}} :
                 n \in TextLengths \ {0}}
    \cup {ControlFrame(s, 0, "failed", 0) : s \in FrameStatuses}

\* receive(fd, ctl, sizeof(struct ControllerStatus)) when k fields arrive.
receive_status(st, sent, k) ==
    LET b == [i \in 1..StatusSize |->
                IF i <= k THEN StatusBytes(sent)[i] ELSE StatusBytes(st)[i]]
    IN  ControllerStatus(b[1], b[2], b[3], b[4], b[5], b[6], b[7])

\* The error label of device_transfer_event.
transfer_error(st) ==
    [status |-> [st EXCEPT
         !.st_dispatch = InstructionKey_Identifier(ai_session_close),
         !.st_text_length = 0, !.st_quantity = 1],
     text |-> [terminator |-> 0, received |-> 0],
     returned |-> 1, errno |-> 0, event |-> KeyRelease]

\* The mirror's device_transfer_event for frame f; text is cm_event_text as
\* [terminator, received], the index of the 0 written and the number of
\* text bytes received; e is errno.  A write beyond cm_event_text is
\* undefined: faults tells whether the process dies of it (returned is -1
\* when the call does not return).  A failing read is taken by receive for
\* a count: it reads on before the buffer and does not return while the
\* failure lasts.
mirror_transfer_event(st, text, e, f, faults) ==
    IF f.part = "failed"
    THEN [status |-> st, text |-> text, returned |-> -1, errno |-> e]
    ELSE IF f.part = "status"
    THEN transfer_error(receive_status(st, f.status, f.at))
    ELSE IF f.part = "length"
    THEN transfer_error(f.status)
    ELSE IF f.textlength >= TextCapacity /\ faults
    THEN [status |-> f.status, text |-> text, returned |-> -1, errno |-> e]
    ELSE IF f.textlength = 0
    THEN [status |-> f.status, text |-> [text EXCEPT !.terminator = 0],
          returned |-> 1, errno |-> e]
    ELSE IF f.part = "text"
    THEN transfer_error(f.status)
    ELSE [status |-> [f.status EXCEPT !.st_text_length = f.textlength],
          text |-> [terminator |-> f.textlength, received |-> f.textlength],
          returned |-> 1, errno |-> e]

NoText == [terminator |-> 0, received |-> 0]

\* The mirror's device_transfer_text: the string is cm_event_text, the size
\* st_text_length.
mirror_transfer_text(st, text) == [string |-> text, size |-> st.st_text_length]

\* Device.transfer_event() on the mirror device.  At end-of-file every
\* read returns 0.
MirrorTransferEvent ==
    /\ mch \in {"open", "eof"}
    /\ \E f \in ControlFrames, faults \in BOOLEAN :
         /\ mch = "eof" => (f.part = "status" /\ f.at = 0)
         /\ ctl' = mirror_transfer_event(ctl, mt, errno, f, faults).status
         /\ mt' = mirror_transfer_event(ctl, mt, errno, f, faults).text
         /\ errno' = mirror_transfer_event(ctl, mt, errno, f, faults).errno
         /\ te' = [called |-> TRUE, raised |-> FALSE,
                   value |-> mirror_transfer_event(ctl, mt, errno, f, faults).returned,
                   event |-> f,
                   assigned |-> mirror_transfer_event(ctl, mt, errno, f, faults).returned = 1]
         /\ mch' = IF mirror_transfer_event(ctl, mt, errno, f, faults).returned < 0
                   THEN "stopped"
                   ELSE IF f.part = "whole" THEN mch ELSE "eof"
    /\ ko' = NoKey
    /\ ic' = NoIntegration
    /\ UNCHANGED <<boot, objectVars, snap, mi, md, renderVars, areaVars, screenVars, cacheVars>>

NoInvalids == [icount |-> 0, rcount |-> 0, invalids |-> << >>]

\* What transmit writes to the display channel: a struct CellArea or a
\* struct Cell.
AreaUnit(area) == [unit |-> "CellArea", area |-> area, cell |-> Cell(0, 0)]

CellUnit(cell) == [unit |-> "Cell", area |-> NoArea, cell |-> cell]

\* The mirror's device_invalidate_cells.
mirror_invalidate_cells(m, area) ==
    [m EXCEPT !.icount = @ + 1, !.invalids = Append(@, area)]

\* The areas of the mirror that are invalidated and not transmitted.
mirror_pending(m) == SubSeq(m.invalids, m.rcount + 1, m.icount)

\* The units device_render_image transmits for the invalids from index i
\* (from 1) on: each area that is not empty, then its cells.
RECURSIVE render_image_units(_, _, _)
render_image_units(d, m, i) ==
    IF i > m.icount
    THEN << >>
    ELSE (IF m.invalids[i].span = 0 \/ m.invalids[i].lines = 0
          THEN << >>
          ELSE <<AreaUnit(m.invalids[i])>>
               \o [k \in 1..Len(mforeach(d.cmd_view.span, m.invalids[i])) |->
                     CellUnit(d.cmd_image[
                         mforeach(d.cmd_view.span, m.invalids[i])[k] + 1])])
         \o render_image_units(d, m, i + 1)

\* The mirror's device_render_image: the invalids afterwards and the units
\* transmitted.
device_render_image(d, m) ==
    [invalids |-> [m EXCEPT !.rcount = m.icount],
     areas |-> SubSeq(m.invalids, m.rcount + 1, m.icount),
     units |-> render_image_units(d, m, m.rcount + 1)]

\* Device.invalidate_cells(area) on the mirror device.
MirrorInvalidateCells ==
    /\ mi.icount < MaxRendered
    /\ mi.icount - mi.rcount < MaxInvalids
    /\ \E area \in ViewAreas(xd.cmd_view) \cup {NoArea} :
         mi' = mirror_invalidate_cells(mi, area)
    /\ rp' = NoRender
    /\ md' = << >>
    /\ UNCHANGED <<boot, objectVars, xd, xi, mch, mt, controllerVars, areaVars, screenVars, cacheVars>>

\* Device.render_image() on the mirror device.
MirrorRenderImage ==
    /\ \E g \in GarbageFor(xd.cmd_image, render_reads(xd, mirror_pending(mi), 1)) :
         /\ mi' = device_render_image(
                      ReachedMemory(xd, render_reads(xd, mirror_pending(mi), 1), g),
                      mi).invalids
         /\ md' = device_render_image(
                      ReachedMemory(xd, render_reads(xd, mirror_pending(mi), 1), g),
                      mi).units
         /\ rp' = [done |-> TRUE,
                   areas |-> device_render_image(
                      ReachedMemory(xd, render_reads(xd, mirror_pending(mi), 1), g),
                      mi).areas,
                   shown |-> << >>, acquired |-> 0,
                   read |-> render_reads(xd, mirror_pending(mi), 1)]
    /\ UNCHANGED <<boot, objectVars, xd, xi, mch, mt, controllerVars, areaVars, screenVars, cacheVars>>

(***************************************************************************)
(* device_manage_terminal of the two backends: the setup of the device and *)
(* the run of the hosted application.                                      *)
(***************************************************************************)
MaxExit == 7         \* the application returns a status in 0..MaxExit

SetupFailure == 199

NoBoot == [called |-> FALSE, backend |-> "", started |-> FALSE, status |-> 0,
           returned |-> 0]

\* xdg-xcb: connected tells whether xcb_connect gave a connection without
\* error, extended whether the xkb extension was set up, status is what
\* app(cmd) returns.  What device_initialize_controller returns is not
\* looked at.
xcb_manage_terminal(connected, extended, status) ==
    IF ~connected \/ ~extended
    THEN [called |-> TRUE, backend |-> "xdg-xcb", started |-> FALSE,
          status |-> 0, returned |-> SetupFailure]
    ELSE [called |-> TRUE, backend |-> "xdg-xcb", started |-> TRUE,
          status |-> status, returned |-> 0]

\* mirror: w is the result of the device_transfer_event call that precedes
\* app(cmd); the application is not started when that call does not
\* return.
mirror_manage_terminal(w, status) ==
    IF w.returned < 0
    THEN [called |-> TRUE, backend |-> "mirror", started |-> FALSE,
          status |-> 0, returned |-> -1]
    ELSE [called |-> TRUE, backend |-> "mirror", started |-> TRUE,
          status |-> status, returned |-> 0]

\* device_manage_terminal(factor, app) of the xdg-xcb device: the status is
\* allocated, the application runs when the setup succeeded.
ManageTerminal ==
    /\ ~boot.called
    /\ \E connected \in BOOLEAN, extended \in BOOLEAN, status \in 0..MaxExit :
         /\ boot' = xcb_manage_terminal(connected, extended, status)
         /\ ctl' \in (IF connected /\ extended THEN MallocStatuses ELSE {ctl})
    /\ UNCHANGED <<objectVars, errno, te, ko, snap, ic, mirrorVars, renderVars, areaVars,
                   screenVars, cacheVars>>

\* device_manage_terminal(factor, app) of the mirror device: the first
\* frame of the controls channel is received, then the application runs.
MirrorManageTerminal ==
    /\ ~boot.called
    /\ \E f \in ControlFrames, faults \in BOOLEAN, status \in 0..MaxExit :
         /\ ctl' = mirror_transfer_event(ctl, mt, errno, f, faults).status
         /\ mt' = mirror_transfer_event(ctl, mt, errno, f, faults).text
         /\ errno' = mirror_transfer_event(ctl, mt, errno, f, faults).errno
         /\ mch' = IF mirror_transfer_event(ctl, mt, errno, f, faults).returned < 0
                   THEN "stopped"
                   ELSE IF f.part = "whole" THEN mch ELSE "eof"
         /\ boot' = mirror_manage_terminal(
                        mirror_transfer_event(ctl, mt, errno, f, faults), status)
    /\ UNCHANGED <<objectVars, te, ko, snap, ic, mi, md, renderVars, areaVars, screenVars,
                   cacheVars>>

(***************************************************************************)
(* Device.define (module.c) and device_define of the two backends.  The    *)
(* expression is a str of the application; the backend receives its UTF-8  *)
(* encoding as a C string.                                                 *)
(***************************************************************************)
MaxExpression == 2   \* codepoints of an expression
MaxDefined == 2      \* distinct expressions defined on one device

Backends == {"xdg-xcb", "mirror"}

\* NUL, 'a', 'b', e with acute (two bytes), a face (four bytes).
ExpressionCodepoints == {0, 97, 98, 233, 128512}

Expressions == UNION {[1..n -> ExpressionCodepoints] : n \in 0..MaxExpression}

\* The UTF-8 bytes of one codepoint.
utf8(cp) ==
    IF cp < 128 THEN <<cp>>
    ELSE IF cp < 2048 THEN <<192 + (cp \div 64), 128 + (cp % 64)>>
    ELSE IF cp < 65536
         THEN <<224 + (cp \div 4096), 128 + ((cp \div 64) % 64), 128 + (cp % 64)>>
         ELSE <<240 + (cp \div 262144), 128 + ((cp \div 4096) % 64),
                128 + ((cp \div 64) % 64), 128 + (cp % 64)>>

\* PyUnicode_AsEncodedString(ux, "utf-8", "replace")
RECURSIVE PyUnicode_AsEncodedString(_, _)
PyUnicode_AsEncodedString(ux, i) ==
    IF i > Len(ux)
    THEN << >>
    ELSE utf8(ux[i]) \o PyUnicode_AsEncodedString(ux, i + 1)

\* The bytes before the first zero byte, counted from position i.
RECURSIVE strlen(_, _)
strlen(s, i) ==
    IF i > Len(s) \/ s[i] = 0 THEN i - 1 ELSE strlen(s, i + 1)

\* mbrtoc32(&c, s, n, &mbs) in a UTF-8 locale from the initial state: parts
\* is the number of bytes of the first character, -2 when the n bytes do
\* not hold it whole, 0 when it is NUL.
mbrtoc32(s, n) ==
    IF n = 0
    THEN [parts |-> -2, c |-> 0]
    ELSE LET need == IF s[1] < 128 THEN 1
                     ELSE IF s[1] < 224 THEN 2
                     ELSE IF s[1] < 240 THEN 3 ELSE 4
         IN  IF need > n
             THEN [parts |-> -2, c |-> 0]
             ELSE IF need = 1
             THEN [parts |-> IF s[1] = 0 THEN 0 ELSE 1, c |-> s[1]]
             ELSE IF need = 2
             THEN [parts |-> 2, c |-> ((s[1] - 192) * 64) + (s[2] - 128)]
             ELSE IF need = 3
             THEN [parts |-> 3,
                   c |-> ((s[1] - 224) * 4096) + ((s[2] - 128) * 64) + (s[3] - 128)]
             ELSE [parts |-> 4,
                   c |-> ((s[1] - 240) * 262144) + ((s[2] - 128) * 4096)
                         + ((s[3] - 128) * 64) + (s[4] - 128)]

\* device_define of xdg-xcb.  parts is a size_t: -2 and -1 are its largest
\* values, so parts > 0 holds of everything but 0.
device_define(uexpression) ==
    LET sl == strlen(uexpression, 1)
        m == mbrtoc32(uexpression, sl)
    IN  IF sl = 1 /\ uexpression[1] < 128
        THEN uexpression[1]
        ELSE IF m.parts = sl
        THEN m.c
        ELSE IF m.parts # 0
        THEN 3
        ELSE -1

\* device_define of the mirror.
mirror_define(uexpression) ==
    IF strlen(uexpression, 1) = 1 /\ uexpression[1] < 128
    THEN uexpression[1]
    ELSE -1

Device_Define(backend, uexpression) ==
    IF backend = "xdg-xcb"
    THEN device_define(uexpression)
    ELSE mirror_define(uexpression)

\* Device.define(ux) of the extension module.
py_device_define(backend, ux) ==
    IF Len(ux) = 1
    THEN ux[1]
    ELSE Device_Define(backend, PyUnicode_AsEncodedString(ux, 1))

NoDefine == [backend |-> "", called |-> FALSE, expression |-> << >>,
             value |-> 0, defined |-> {}]

\* Device.define(ux): defined collects the expressions and what was
\* returned for each.
Define ==
    /\ \E ux \in Expressions :
         /\ Cardinality(dd.defined \cup {<<ux, py_device_define(dd.backend, ux)>>})
                <= MaxDefined
         /\ dd' = [dd EXCEPT !.called = TRUE,
                             !.expression = ux,
                             !.value = py_device_define(dd.backend, ux),
                             !.defined = @ \cup {<<ux, py_device_define(dd.backend, ux)>>}]
    /\ UNCHANGED <<dv, dc, tx, boot, renderVars, controllerVars, mirrorVars, areaVars,
                   screenVars, cacheVars>>

\* No display call is made.  steps is what a call of the xdg-xcb device
\* does to its surfaces, units what a call of the mirror writes to the
\* display channel; pending and left are the areas invalidated and not
\* rendered before and after the call.
NoCall == [call |-> "none", backend |-> "", dst |-> NoArea, src |-> NoArea,
           pending |-> << >>, left |-> << >>, steps |-> << >>, units |-> << >>]

(***************************************************************************)
(* replicate_cells and dispatch of the two backends.                       *)
(***************************************************************************)
\* A step of a call on the surfaces of the xdg-xcb device: the areas drawn
\* to the working surface with their cells, the copy of an area of the
\* working surface, or the copy of the working surface to the window.
RenderStep(areas, cells) ==
    [step |-> "render", areas |-> areas, cells |-> cells]

CopyStep(dst, src) ==
    [step |-> "copy", areas |-> <<dst, src>>, cells |-> << >>]

PresentStep == [step |-> "present", areas |-> << >>, cells |-> << >>]

\* Mutant: the copy is made without the flush of the invalidated cells.
device_replicate_cells_unflushed(d, x, dst, src) ==
    [xi |-> x,
     steps |-> <<CopyStep(dst, src)>>]

\* device_replicate_cells of xdg-xcb: device_render_pixels, then the copy
\* through the temporary surface.
device_replicate_cells(d, x, dst, src) ==
    [xi |-> device_render_pixels(d, x).xi,
     steps |-> <<RenderStep(device_render_pixels(d, x).areas,
                            device_render_pixels(d, x).shown),
                 CopyStep(dst, src)>>]

\* device_dispatch_frame of xdg-xcb: the working surface is copied to the
\* window.
device_dispatch_frame(d, x) ==
    [xi |-> x,
     steps |-> <<PresentStep>>]

\* device_replicate_cells of the mirror: device_render_image, then the
\* destination and the source.
mirror_replicate_cells(d, m, dst, src) ==
    [invalids |-> device_render_image(d, m).invalids,
     units |-> device_render_image(d, m).units \o <<AreaUnit(dst), AreaUnit(src)>>]

\* device_dispatch_image of the mirror: device_render_image, the pair of
\* zero areas, then the invalids that were rendered are dropped.
mirror_dispatch_image(d, m) ==
    LET r == device_render_image(d, m).invalids
    IN  [invalids |-> IF r.icount = r.rcount
                      THEN NoInvalids
                      ELSE [icount |-> r.icount - r.rcount,
                            rcount |-> 0,
                            invalids |-> SubSeq(r.invalids, r.rcount + 1, r.icount)],
         units |-> device_render_image(d, m).units
                   \o <<AreaUnit(CellArea(0, 0, 0, 0)), AreaUnit(CellArea(0, 0, 0, 0))>>]

\* The areas replicated: the last cell of the view and its first line.
ReplicateAreas(view) ==
    {CellArea(view.lines - 1, view.span - 1, 1, 1), CellArea(0, 0, 1, view.span)}

\* The areas invalidated between replications: the first cell of the view,
\* the whole view, no cell.
DisplayAreas(view) ==
    {CellArea(0, 0, 1, 1), CellArea(0, 0, view.lines, view.span), NoArea}

\* Device.replicate_cells(dst, src) on the xdg-xcb device.
ReplicateCells ==
    /\ dc.backend = "xdg-xcb"
    /\ \E dst \in ReplicateAreas(xd.cmd_view), src \in ReplicateAreas(xd.cmd_view) :
         /\ xi' = device_replicate_cells(xd, xi, dst, src).xi
         /\ dc' = [dc EXCEPT
                !.call = "replicate_cells", !.dst = dst, !.src = src,
                !.pending = xi.invalids,
                !.left = device_replicate_cells(xd, xi, dst, src).xi.invalids,
                !.steps = device_replicate_cells(xd, xi, dst, src).steps]
    /\ rp' = NoRender
    /\ UNCHANGED <<boot, dd, dv, tx, xd, controllerVars, mirrorVars, areaVars,
                   screenVars, cacheVars>>

\* Device.dispatch_image() on the xdg-xcb device.
DispatchFrame ==
    /\ dc.backend = "xdg-xcb"
    /\ xi' = device_dispatch_frame(xd, xi).xi
    /\ dc' = [dc EXCEPT
            !.call = "dispatch_image", !.dst = NoArea, !.src = NoArea,
            !.pending = xi.invalids,
            !.left = device_dispatch_frame(xd, xi).xi.invalids,
            !.steps = device_dispatch_frame(xd, xi).steps]
    /\ rp' = NoRender
    /\ UNCHANGED <<boot, dd, dv, tx, xd, controllerVars, mirrorVars, areaVars,
                   screenVars, cacheVars>>

\* Device.replicate_cells(dst, src) on the mirror device.
MirrorReplicateCells ==
    /\ dc.backend = "mirror"
    /\ \E dst \in ReplicateAreas(xd.cmd_view), src \in ReplicateAreas(xd.cmd_view) :
         /\ mi' = mirror_replicate_cells(xd, mi, dst, src).invalids
         /\ md' = mirror_replicate_cells(xd, mi, dst, src).units
         /\ dc' = [dc EXCEPT
                !.call = "replicate_cells", !.dst = dst, !.src = src,
                !.pending = mirror_pending(mi),
                !.left = mirror_pending(
                            mirror_replicate_cells(xd, mi, dst, src).invalids),
                !.units = mirror_replicate_cells(xd, mi, dst, src).units]
    /\ rp' = NoRender
    /\ UNCHANGED <<boot, dd, dv, tx, xd, xi, mch, mt, controllerVars, areaVars,
                   screenVars, cacheVars>>

\* Device.dispatch_image() on the mirror device.
MirrorDispatchImage ==
    /\ dc.backend = "mirror"
    /\ mi' = mirror_dispatch_image(xd, mi).invalids
    /\ md' = mirror_dispatch_image(xd, mi).units
    /\ dc' = [dc EXCEPT
            !.call = "dispatch_image", !.dst = NoArea, !.src = NoArea,
            !.pending = mirror_pending(mi),
            !.left = mirror_pending(mirror_dispatch_image(xd, mi).invalids),
            !.units = mirror_dispatch_image(xd, mi).units]
    /\ rp' = NoRender
    /\ UNCHANGED <<boot, dd, dv, tx, xd, xi, mch, mt, controllerVars, areaVars,
                   screenVars, cacheVars>>

(***************************************************************************)
(* Invalidation of areas that the view does not hold, and resize_screen    *)
(* between an invalidation and its rendering.                              *)
(***************************************************************************)
\* The areas invalidated: a cell and the whole of the view, the view and
\* one more line, the view and one more cell per line, the cell past the
\* last line.
BeyondAreas(view) ==
    {CellArea(0, 0, 1, 1),
     CellArea(0, 0, view.lines, view.span),
     CellArea(0, 0, view.lines + 1, view.span),
     CellArea(0, 0, view.lines, view.span + 1),
     CellArea(view.lines, 0, 1, 1)}

\* Device.invalidate_cells(area) on the xdg-xcb device.
InvalidateBeyond ==
    /\ dc.backend = "xdg-xcb"
    /\ Len(xi.invalids) < MaxInvalids
    /\ \E area \in BeyondAreas(xd.cmd_view) :
         xi' = device_invalidate_cells(xi, area)
    /\ rp' = NoRender
    /\ UNCHANGED <<boot, objectVars, xd, controllerVars, mirrorVars, areaVars,
                   screenVars, cacheVars>>

\* Device.invalidate_cells(area) on the mirror device.
MirrorInvalidateBeyond ==
    /\ dc.backend = "mirror"
    /\ mi.icount < MaxRendered
    /\ mi.icount - mi.rcount < MaxInvalids
    /\ \E area \in BeyondAreas(xd.cmd_view) :
         mi' = mirror_invalidate_cells(mi, area)
    /\ rp' = NoRender
    /\ md' = << >>
    /\ UNCHANGED <<boot, objectVars, xd, xi, mch, mt, controllerVars, areaVars,
                   screenVars, cacheVars>>

\* Device.resize_screen() after the backend changed y_cells and x_cells:
\* cmd_image and cmd_view are those of the new screen, the areas
\* invalidated stay as they are.
ResizeView ==
    /\ \E lines \in 1..MaxViewLines, span \in 1..MaxViewSpan :
         /\ CellArea(0, 0, lines, span) # xd.cmd_view
         /\ device_resize_screen(dv, so, image, lines, span).err = ""
         /\ so' = device_resize_screen(dv, so, image, lines, span).screen
         /\ image' = device_resize_screen(dv, so, image, lines, span).image
         /\ dv' = device_resize_screen(dv, so, image, lines, span).dev
         /\ op' = [NoOp EXCEPT
                !.name = "resize_screen",
                !.a1 = CellArea(0, 0, lines, span),
                !.memlen = device_resize_screen(dv, so, image, lines, span).memlen]
         /\ xd' = [cmd_view |-> device_resize_screen(
                                   dv, so, image, lines, span).screen.dimensions,
                   cmd_image |-> device_resize_screen(
                                    dv, so, image, lines, span).image]
    /\ rp' = NoRender
    /\ UNCHANGED <<boot, dd, dc, tx, xi, controllerVars, mirrorVars, areaVars,
                   cacheVars>>

(***************************************************************************)
(* Specifications.                                                         *)
(***************************************************************************)
NoCache == device_initialize_cache(cwidth, cheight, 1)

NoHistory == [first |-> [c \in CacheCells |-> NoTile],
              rendered |-> [c \in CacheCells |-> 0],
              evicted |-> FALSE, swapped |-> FALSE]

NoLocality == [count |-> [c \in LongCells |-> 0],
               inserted |-> [c \in LongCells |-> 0]]

NoEviction == [fresh |-> [p \in 0..1 |-> 0], again |-> 0]

\* The display of the xdg-xcb device is not set up.
IdleRender ==
    /\ xd = [cmd_view |-> NoArea, cmd_image |-> << >>]
    /\ xi = [invalids |-> << >>]
    /\ rp = NoRender

\* No event is transferred: the status stays zeroed.
IdleController ==
    /\ ctl = NoStatus
    /\ errno = 0
    /\ te = NoTransfer
    /\ ko = NoKey
    /\ snap = NoSnapshot
    /\ ic = NoIntegration

\* The mirror device as device_manage_terminal sets it up.
IdleMirror ==
    /\ mch = "open"
    /\ mt = NoText
    /\ mi = NoInvalids
    /\ md = << >>

\* The Device object: nothing is defined, no display call is made.
IdleObject ==
    /\ dd = NoDefine
    /\ dv = NoDevice
    /\ dc = NoCall
    /\ tx = NoTransmit

IdleDevice ==
    /\ IdleRender
    /\ IdleController
    /\ IdleMirror
    /\ boot = NoBoot
    /\ IdleObject

InitRest ==
    /\ IdleDevice
    /\ so = NoScreen
    /\ image = << >>
    /\ op = NoOp
    /\ tc = NoCache
    /\ tiles = [s \in 0..0 |-> NoPixels]
    /\ acq = NoAcquire
    /\ hist = NoHistory
    /\ loc = NoLocality
    /\ ev = NoEviction

\* Screens: no Screen object exists yet.
Init ==
    /\ ia = [bounds |-> NoArea, latter |-> NoArea]
    /\ ir = [done |-> FALSE, area |-> NoArea]
    /\ InitRest

Next ==
    \/ ScreenNew
    \/ DeviceNew
    \/ DeviceResizeScreen
    \/ Rewrite
    \/ Select
    \/ Replicate

Spec == Init /\ [][Next]_vars

\* Areas: the operands are any two areas of the bounded fields.
InitArea ==
    /\ ia \in ([bounds : Areas, latter : Areas] \cup ScenarioOperands)
    /\ ir = [done |-> FALSE, area |-> NoArea]
    /\ InitRest

NextArea == Intersect

SpecArea == InitArea /\ [][NextArea]_vars

\* Tile cache: the state device_initialize_cache leaves.
InitCache ==
    /\ ia = [bounds |-> NoArea, latter |-> NoArea]
    /\ ir = [done |-> FALSE, area |-> NoArea]
    /\ so = NoScreen
    /\ image = << >>
    /\ op = NoOp
    /\ \E volume_root \in 1..MaxConfinement :
         /\ tc = device_initialize_cache(cwidth, cheight, volume_root)
         /\ tiles = [s \in 0..((volume_root * volume_root * volume_root) - 1) |->
                        NoPixels]
    /\ acq = NoAcquire
    /\ hist = NoHistory
    /\ loc = NoLocality
    /\ ev = NoEviction
    /\ IdleDevice

NextCache == Acquire

SpecCache == InitCache /\ [][NextCache]_vars

\* Locality: a cache of two slots per bucket and long runs of acquires of
\* two cells of the same bucket.
InitLocality ==
    /\ ia = [bounds |-> NoArea, latter |-> NoArea]
    /\ ir = [done |-> FALSE, area |-> NoArea]
    /\ so = NoScreen
    /\ image = << >>
    /\ op = NoOp
    /\ tc = device_initialize_cache(cwidth, cheight, 2)
    /\ tiles = [s \in 0..7 |-> NoPixels]
    /\ acq = NoAcquire
    /\ hist = NoHistory
    /\ loc = NoLocality
    /\ ev = NoEviction
    /\ IdleDevice

NextLocality == AcquireLong

SpecLocality == InitLocality /\ [][NextLocality]_vars

\* Eviction: runs of acquires of fresh cells that fill the cache.
InitEviction ==
    /\ ia = [bounds |-> NoArea, latter |-> NoArea]
    /\ ir = [done |-> FALSE, area |-> NoArea]
    /\ so = NoScreen
    /\ image = << >>
    /\ op = NoOp
    /\ \E volume_root \in 1..MaxConfinement :
         /\ tc = device_initialize_cache(cwidth, cheight, volume_root)
         /\ tiles = [s \in 0..((volume_root * volume_root * volume_root) - 1) |->
                        NoPixels]
    /\ acq = NoAcquire
    /\ hist = NoHistory
    /\ loc = NoLocality
    /\ ev = NoEviction
    /\ IdleDevice

\* Walks: a cache of two buckets and runs of acquires of three cells of
\* one bucket.
InitWalk == InitLocality

NextWalk == AcquireWalk

SpecWalk == InitWalk /\ [][NextWalk]_vars

NextEviction ==
    \/ AcquireFresh
    \/ AcquireAgain

SpecEviction == InitEviction /\ [][NextEviction]_vars

\* Rendering: the display of the xdg-xcb device is initialized; its view
\* and image are the application's to fill.
InitRender ==
    /\ ia = [bounds |-> NoArea, latter |-> NoArea]
    /\ ir = [done |-> FALSE, area |-> NoArea]
    /\ so = NoScreen
    /\ image = << >>
    /\ op = NoOp
    /\ tc = device_initialize_cache(cwidth, cheight, MaxConfinement)
    /\ tiles = [s \in 0..((MaxConfinement * MaxConfinement * MaxConfinement) - 1) |->
                   NoPixels]
    /\ acq = NoAcquire
    /\ hist = NoHistory
    /\ loc = NoLocality
    /\ ev = NoEviction
    /\ \E lines \in 1..MaxViewLines, span \in 1..MaxViewSpan :
         /\ xd \in [cmd_view : {CellArea(0, 0, lines, span)},
                     cmd_image : RenderImages(lines * span)]
    /\ xi = [invalids |-> << >>]
    /\ rp = NoRender
    /\ IdleController
    /\ IdleMirror
    /\ boot = NoBoot
    /\ IdleObject

NextRender ==
    \/ InvalidateCells
    \/ RenderPixels

SpecRender == InitRender /\ [][NextRender]_vars

\* Keys: the xdg-xcb device transfers events, the application asks for the
\* key of each.
NextKeys ==
    \/ TransferEvent
    \/ Key

InitKeys ==
    /\ ia = [bounds |-> NoArea, latter |-> NoArea]
    /\ ir = [done |-> FALSE, area |-> NoArea]
    /\ so = NoScreen
    /\ image = << >>
    /\ op = NoOp
    /\ tc = NoCache
    /\ tiles = [s \in 0..0 |-> NoPixels]
    /\ acq = NoAcquire
    /\ hist = NoHistory
    /\ loc = NoLocality
    /\ ev = NoEviction
    /\ IdleRender
    /\ ctl \in MallocStatuses
    /\ errno = 0
    /\ te = NoTransfer
    /\ ko = NoKey
    /\ snap = NoSnapshot
    /\ ic = NoIntegration
    /\ IdleMirror
    /\ boot = NoBoot
    /\ IdleObject

SpecKeys == InitKeys /\ [][NextKeys]_vars

\* Controls: snapshots of the status are taken and integrated between
\* events.
InitControls ==
    /\ ia = [bounds |-> NoArea, latter |-> NoArea]
    /\ ir = [done |-> FALSE, area |-> NoArea]
    /\ so = NoScreen
    /\ image = << >>
    /\ op = NoOp
    /\ tc = NoCache
    /\ tiles = [s \in 0..0 |-> NoPixels]
    /\ acq = NoAcquire
    /\ hist = NoHistory
    /\ loc = NoLocality
    /\ ev = NoEviction
    /\ IdleRender
    /\ ctl \in MallocStatuses
    /\ errno = 0
    /\ te = NoTransfer
    /\ ko = NoKey
    /\ snap = NoSnapshot
    /\ ic = NoIntegration
    /\ IdleMirror
    /\ boot = NoBoot
    /\ IdleObject

NextControls ==
    \/ TransferFew
    \/ ControlsSnapshot
    \/ IntegrateControls
    \/ Transmit

SpecControls == InitControls /\ [][NextControls]_vars

\* Bootstrap: the process calls device_manage_terminal of its backend.
NextBoot ==
    \/ ManageTerminal
    \/ MirrorManageTerminal

SpecBoot == Init /\ [][NextBoot]_vars

\* Mirror controls: frames arrive on the controls channel until it ends.
NextMirror == MirrorTransferEvent

SpecMirror == Init /\ [][NextMirror]_vars

\* Mirror display: the view and the image are those of a screen; areas
\* are invalidated and rendered.
InitMirrorDisplay ==
    /\ ia = [bounds |-> NoArea, latter |-> NoArea]
    /\ ir = [done |-> FALSE, area |-> NoArea]
    /\ so = NoScreen
    /\ image = << >>
    /\ op = NoOp
    /\ tc = NoCache
    /\ tiles = [s \in 0..0 |-> NoPixels]
    /\ acq = NoAcquire
    /\ hist = NoHistory
    /\ loc = NoLocality
    /\ ev = NoEviction
    /\ \E lines \in 1..MaxViewLines, span \in 1..MaxViewSpan :
         /\ xd \in [cmd_view : {CellArea(0, 0, lines, span)},
                     cmd_image : RenderImages(lines * span)]
    /\ xi = [invalids |-> << >>]
    /\ rp = NoRender
    /\ IdleController
    /\ IdleMirror
    /\ boot = NoBoot
    /\ IdleObject

NextMirrorDisplay ==
    \/ MirrorInvalidateCells
    \/ MirrorRenderImage

SpecMirrorDisplay == InitMirrorDisplay /\ [][NextMirrorDisplay]_vars

\* Definitions: the application defines expressions on the device of one
\* backend.
InitDefine ==
    /\ ia = [bounds |-> NoArea, latter |-> NoArea]
    /\ ir = [done |-> FALSE, area |-> NoArea]
    /\ so = NoScreen
    /\ image = << >>
    /\ op = NoOp
    /\ tc = NoCache
    /\ tiles = [s \in 0..0 |-> NoPixels]
    /\ acq = NoAcquire
    /\ hist = NoHistory
    /\ loc = NoLocality
    /\ ev = NoEviction
    /\ IdleRender
    /\ IdleController
    /\ IdleMirror
    /\ boot = NoBoot
    /\ dd \in {[NoDefine EXCEPT !.backend = b] : b \in Backends}
    /\ dv = NoDevice
    /\ dc = NoCall
    /\ tx = NoTransmit

NextDefine == Define

SpecDefine == InitDefine /\ [][NextDefine]_vars

\* Cells: Glyph and Pixels objects are written to a screen and selected.
NextCells ==
    \/ ScreenNew
    \/ RewriteCells
    \/ SelectCells

SpecCells == Init /\ [][NextCells]_vars

\* Device objects: the backend has set up its struct Device, the
\* application creates the Device object, resizes its screen and rewrites
\* cells of it.
InitDevice ==
    /\ ia = [bounds |-> NoArea, latter |-> NoArea]
    /\ ir = [done |-> FALSE, area |-> NoArea]
    /\ so = NoScreen
    /\ image = << >>
    /\ op = NoOp
    /\ tc = NoCache
    /\ tiles = [s \in 0..0 |-> NoPixels]
    /\ acq = NoAcquire
    /\ hist = NoHistory
    /\ loc = NoLocality
    /\ ev = NoEviction
    /\ IdleRender
    /\ IdleController
    /\ IdleMirror
    /\ boot = NoBoot
    /\ dd = NoDefine
    /\ dv \in {DeviceSetup(b) : b \in Backends}
    /\ dc = NoCall
    /\ tx = NoTransmit

NextDevice ==
    \/ DeviceNew
    \/ DeviceResizeScreen
    \/ DeviceRewrite

SpecDevice == InitDevice /\ [][NextDevice]_vars

\* Display: the device of one backend; areas of its view are invalidated,
\* rendered, replicated and dispatched.
InitDisplay ==
    /\ ia = [bounds |-> NoArea, latter |-> NoArea]
    /\ ir = [done |-> FALSE, area |-> NoArea]
    /\ so = NoScreen
    /\ image = << >>
    /\ op = NoOp
    /\ tc = NoCache
    /\ tiles = [s \in 0..0 |-> NoPixels]
    /\ acq = NoAcquire
    /\ hist = NoHistory
    /\ loc = NoLocality
    /\ ev = NoEviction
    /\ \E lines \in 1..MaxViewLines, span \in 1..MaxViewSpan :
         /\ xd \in [cmd_view : {CellArea(0, 0, lines, span)},
                     cmd_image : RenderImages(lines * span)]
    /\ xi = [invalids |-> << >>]
    /\ rp = NoRender
    /\ IdleController
    /\ IdleMirror
    /\ boot = NoBoot
    /\ dd = NoDefine
    /\ dv = NoDevice
    /\ dc \in {[NoCall EXCEPT !.backend = b] : b \in Backends}
    /\ tx = NoTransmit

NextDisplay ==
    \/ /\ dc.backend = "xdg-xcb"
       /\ InvalidateCells
       /\ xi'.invalids[Len(xi'.invalids)] \in DisplayAreas(xd.cmd_view)
    \/ (dc.backend = "xdg-xcb" /\ RenderPixels)
    \/ ReplicateCells
    \/ DispatchFrame
    \/ /\ dc.backend = "mirror"
       /\ MirrorInvalidateCells
       /\ mi'.invalids[mi'.icount] \in DisplayAreas(xd.cmd_view)
    \/ (dc.backend = "mirror" /\ MirrorRenderImage)
    \/ MirrorReplicateCells
    \/ MirrorDispatchImage

SpecDisplay == InitDisplay /\ [][NextDisplay]_vars

\* Views: areas inside and beyond the view are invalidated and rendered,
\* and the screen is resized in between.
InitView == InitDisplay

NextView ==
    \/ InvalidateBeyond
    \/ (dc.backend = "xdg-xcb" /\ RenderPixels)
    \/ MirrorInvalidateBeyond
    \/ (dc.backend = "mirror" /\ MirrorRenderImage)
    \/ ResizeView

SpecView == InitView /\ [][NextView]_vars

(***************************************************************************)
(* Properties.                                                             *)
(***************************************************************************)
\* Area A lies inside area W.
Inside(W, A) ==
    /\ A.top_offset >= W.top_offset
    /\ A.left_offset >= W.left_offset
    /\ A.top_offset + A.lines <= W.top_offset + W.lines
    /\ A.left_offset + A.span <= W.left_offset + W.span

\* What select returns when every read falls inside the buffer.
NoGarbage == [i \in 0..1 |-> Cell(-1, 0)]

Selected(img, area) == screen_select(so, img, area, NoGarbage).result

Minimum(a, b) == IF a < b THEN a ELSE b

\* C1: after replicate_cells(dst, src) with equally sized areas inside the
\* screen, select(dst) equals select(src) as it was before the call.
C1_ReplicateIsBlit ==
    (/\ op.name = "replicate_cells"
     /\ op.a1.lines = op.a2.lines /\ op.a1.span = op.a2.span
     /\ Inside(so.dimensions, op.a1) /\ Inside(so.dimensions, op.a2))
    => Selected(image, op.a1) = Selected(op.before, op.a2)

\* C2: select(area) right after rewrite(area, cells), for an area inside the
\* screen and cells of the area's volume, returns cells in row-major order.
C2_RewriteSelectRoundTrip ==
    (/\ op.name = "rewrite"
     /\ Inside(so.dimensions, op.a1)
     /\ Len(op.source) = CellArea_GetVolume(op.a1)
     /\ \A i \in 1..Len(op.source) : op.source[i].isCell)
    => /\ op.err = ""
       /\ Selected(image, op.a1) = [i \in 1..Len(op.source) |-> op.source[i].cell]

\* C2 witness: a rewrite of two full rows of a wider screen was selected back.
C2_Witness ==
    /\ op.name = "rewrite"
    /\ Inside(so.dimensions, op.a1)
    /\ op.a1.lines = 2 /\ op.a1.span = 2 /\ so.dimensions.span = 3
    /\ Len(op.source) = 4
    /\ \A i \in 1..4 : op.source[i].isCell
    /\ Selected(image, op.a1) = [i \in 1..4 |-> SourceCell(i)]

\* The buffer indices of the cells of area A of the screen.
IndicesOf(A) ==
    {((A.top_offset - so.dimensions.top_offset + r) * so.dimensions.span)
       + (A.left_offset - so.dimensions.left_offset) + c :
        r \in 0..(A.lines - 1), c \in 0..(A.span - 1)}

\* C3: replicate_cells writes min(destination.lines, source.lines) rows of
\* min(destination.span, source.span) cells at the destination origin and
\* changes no cell outside of the destination area.
C3_ReplicateMinimumSize ==
    (/\ op.name = "replicate_cells"
     /\ Inside(so.dimensions, op.a1) /\ Inside(so.dimensions, op.a2))
    => /\ Len(op.written) = Minimum(op.a1.lines, op.a2.lines)
                             * Minimum(op.a1.span, op.a2.span)
       /\ \A i \in 1..Len(image) :
            image[i] # op.before[i] => (i - 1) \in IndicesOf(op.a1)

\* C4: intersect(W, A) has at most min(W.lines, A.lines) lines and
\* min(W.span, A.span) cells per line, and lies inside W.
C4_IntersectionBounded ==
    ir.done =>
        /\ ir.area.lines <= Minimum(ia.bounds.lines, ia.latter.lines)
        /\ ir.area.span <= Minimum(ia.bounds.span, ia.latter.span)
        /\ Inside(ia.bounds, ir.area)

\* C5: an area that starts at or beyond a limit of W intersects to the empty
\* selection at that limit.
C5_IntersectionBeyondLimit ==
    ir.done =>
        /\ ia.latter.top_offset >= ia.bounds.top_offset + ia.bounds.lines
            => /\ ir.area.lines = 0
               /\ ir.area.top_offset = U16(ia.bounds.top_offset + ia.bounds.lines)
        /\ ia.latter.left_offset >= ia.bounds.left_offset + ia.bounds.span
            => /\ ir.area.span = 0
               /\ ir.area.left_offset = U16(ia.bounds.left_offset + ia.bounds.span)
        /\ (ia.bounds = CellArea(0, 0, 5, 5) /\ ia.latter = CellArea(6, 6, 1, 1))
            => ir.area = CellArea(5, 5, 0, 0)
        /\ (ia.bounds = CellArea(0, 0, 5, 5) /\ ia.latter = CellArea(3, 3, 10, 10))
            => ir.area = CellArea(3, 3, 2, 2)

\* C6: select(area) returns the cells of intersect(dimensions, area), in
\* row-major order, as the buffer holds them.
C6_SelectClipped ==
    op.name = "select" =>
        LET clipped == aintersection(so.dimensions, op.a1)
            row(k) == (clipped.top_offset - so.dimensions.top_offset)
                      + ((k - 1) \div clipped.span)
            col(k) == (clipped.left_offset - so.dimensions.left_offset)
                      + ((k - 1) % clipped.span)
        IN  /\ Len(op.result) = clipped.lines * clipped.span
            /\ \A k \in 1..Len(op.result) :
                 /\ row(k) < so.dimensions.lines
                 /\ col(k) < so.dimensions.span
                 /\ op.result[k] = op.before[(row(k) * so.dimensions.span) + col(k) + 1]

\* C7: every cell rewrite writes lands at an index in [0, lines x span).
C7_RewriteInsideBuffer ==
    op.name = "rewrite" =>
        \A k \in 1..Len(op.written) :
            /\ op.written[k] >= 0
            /\ op.written[k] < so.dimensions.lines * so.dimensions.span

\* The number of leading elements of the source that are Cells.
CellPrefix(source) ==
    IF \A i \in 1..Len(source) : source[i].isCell
    THEN Len(source)
    ELSE (CHOOSE i \in 1..Len(source) :
            /\ ~source[i].isCell
            /\ \A j \in 1..(i - 1) : source[j].isCell) - 1

\* C8 as claimed: rewrite fails with ValueError whenever its source holds an
\* element that is not a Cell, wherever that element is in the sequence.
C8_AnyNonCellFails ==
    (/\ op.name = "rewrite"
     /\ \E i \in 1..Len(op.source) : ~op.source[i].isCell)
    => op.err = "ValueError"

\* C8 amended: rewrite fails with ValueError exactly when the iterator yields
\* an element that is not a Cell; it stops taking elements once the cursor
\* has reached the buffer edge at the end of a row, and what the source
\* holds after that point is not examined.
C8_YieldedNonCellFails ==
    op.name = "rewrite" =>
        LET good == CellPrefix(op.source)
            edge == so.dimensions.span * so.dimensions.lines
            lnd == so.dimensions.span - op.a1.span
        IN  /\ op.err \in {"", "ValueError"}
            /\ op.err = "ValueError" <=>
                    (op.consumed = good + 1 /\ good < Len(op.source))
            /\ op.err = "" =>
                /\ Len(op.written) = op.consumed
                /\ op.consumed < Len(op.source) =>
                        (/\ op.consumed >= 1
                         /\ op.written[op.consumed] + 1 + lnd >= edge)
            /\ \A i \in 1..op.consumed :
                    ~op.source[i].isCell => op.err = "ValueError"

\* C8 witness: a source whose element that is not a Cell was reached before
\* the buffer edge, after cells had been written.
C8_Witness ==
    /\ op.name = "rewrite"
    /\ op.err = "ValueError"
    /\ so.dimensions.lines = 2 /\ so.dimensions.span = 2
    /\ Inside(so.dimensions, op.a1) /\ op.a1.lines = 2
    /\ op.consumed >= 3
    /\ op.consumed < Len(op.source)
    /\ Len(op.written) = op.consumed - 1

\* C9: creating a Screen fails with ValueError when the buffer is shorter
\* than lines x span cells, and every existing Screen has a buffer of at
\* least lines x span cells.
C9_ScreenBufferSufficient ==
    /\ so.exists =>
        /\ so.memlen >= CellSize * so.dimensions.lines * so.dimensions.span
        /\ Len(image) >= so.dimensions.lines * so.dimensions.span
    /\ (/\ op.name \in {"screen_new", "device_new", "resize_screen"}
        /\ op.memlen < CellSize * op.a1.lines * op.a1.span)
       => (op.err = "ValueError" /\ (op.name = "screen_new" => ~so.exists))

\* C9 witness: the constructor refused a buffer one byte short of 2x2 cells.
C9_Witness ==
    /\ op.name = "screen_new"
    /\ op.a1.lines = 2 /\ op.a1.span = 2
    /\ op.memlen = (CellSize * 4) - 1
    /\ op.err = "ValueError"
    /\ ~so.exists

\* C10: while no eviction has happened, every cell acquired was rasterized
\* exactly once and every acquire of it returns the tile of its first acquire.
C10_CacheIdempotence ==
    ~hist.evicted =>
        \A c \in CacheCells :
            hist.first[c] # NoTile =>
                /\ hist.rendered[c] = 1
                /\ acq.cell = c => acq.tile = hist.first[c]

\* C10 witness: a hit on a record that an earlier prioritize moved to the
\* front of its bucket, in a cache that never evicted.
C10_Witness ==
    /\ ~hist.evicted
    /\ hist.swapped /\ ~acq.swapped
    /\ ~acq.rendered
    /\ acq.visited = 1
    /\ hist.first[acq.cell] # NoTile
    /\ hist.first[acq.cell].xtile # 0
    /\ acq.tile = hist.first[acq.cell]

\* The cells of the image at the positions of area.
CellsOf(d, area) ==
    {d.cmd_image[(((area.top_offset + r) * d.cmd_view.span) + area.left_offset + c) + 1] :
        r \in 0..(area.lines - 1), c \in 0..(area.span - 1)}

\* C11: a render of one invalidated area of identical cells invokes the
\* rasterizer exactly once, whatever the volume of the area.
C11_RenderRasterizesOnce ==
    (/\ rp.done
     /\ Len(rp.areas) = 1
     /\ Cardinality(CellsOf(xd, rp.areas[1])) = 1)
    => Len(rp.shown) = 1

\* C12: once a cell has been acquired 50 times, every later acquire of it
\* visits at most as many records of its bucket as its position at first
\* insertion (here: in caches that never evicted).
C12_CacheLocality ==
    (/\ acq.n > 0
     /\ ~hist.evicted
     /\ loc.count[acq.cell] > PriorityThreshold)
    => acq.visited <= loc.inserted[acq.cell]

\* C13: an acquire that drops records of its bucket (a quarter of them, or
\* the last one) leaves the records, the record count and the slot count of
\* every other bucket as they were, and leaves dtc_image_next as it was.
C13_EvictionLocal ==
    [][(acq'.n = acq.n + 1 /\ acq'.evicted) =>
          /\ tc'.dtc_image_next = tc.dtc_image_next
          /\ \A b \in 1..tc.dtc_distribution_size :
               b # acq'.bucket + 1 =>
                 /\ tc'.dtc_records[b] = tc.dtc_records[b]
                 /\ tc'.dtc_record_counts[b] = tc.dtc_record_counts[b]
                 /\ tc'.dtc_record_slots[b] = tc.dtc_record_slots[b]]_vars

\* An acquire dropped records of its bucket while another bucket held some.
C13_Witness ==
    /\ acq.n > 0
    /\ acq.evicted
    /\ \E b \in 1..tc.dtc_distribution_size :
         b # acq.bucket + 1 /\ tc.dtc_record_counts[b] > 0

C15_DispatchRoundTrip ==
    ko.called =>
      /\ (/\ te.event.type = "XCB_KEY_PRESS"
          /\ te.event.sym \in XKB_KEY_F1..XKB_KEY_F35) =>
            /\ FunctionKey_Number(ctl.st_dispatch) = (te.event.sym - XKB_KEY_F1) + 1
            /\ ko.key = [form |-> "F", value |-> (te.event.sym - XKB_KEY_F1) + 1]
      /\ (/\ te.event.type = "XCB_BUTTON_PRESS"
          /\ te.event.detail \notin {4, 5}) =>
            /\ ScreenCursorKey_Number(ctl.st_dispatch) = te.event.detail
            /\ ko.key = [form |-> "M", value |-> te.event.detail]
      /\ te.event.type = "XCB_CLIENT_MESSAGE" =>
            /\ InstructionKey_Identifier(InstructionKey_Number(ctl.st_dispatch))
                 = -(te.event.data)
            /\ ko.key = [form |-> "instruction",
                         value |-> InstructionKey_Number(ctl.st_dispatch)]

\* C16: once a snapshot taken without a dispatch is integrated whole, the
\* status of the device equals the status the snapshot was taken of in every
\* field but st_receiver, which is null.
C16_SnapshotRoundTrip ==
    (ic.called /\ ~ic.raised /\ ~snap.overridden) =>
        ctl = [snap.of EXCEPT !.st_receiver = "NULL"]

\* A snapshot of a status that held a receiver was integrated after the
\* connection had closed and left its session/close in the status.
C16_Witness ==
    /\ ic.called
    /\ ~ic.raised
    /\ ~snap.overridden
    /\ snap.of.st_receiver = "receiver"
    /\ te.called
    /\ te.event.type = "closed"
    /\ ctl.st_dispatch # InstructionKey_Identifier(ai_session_close)

\* C17: end-of-file inside a frame of the mirror's controls channel, in
\* the status, in the length or in the text, makes transfer_event return a
\* session/close event with st_text_length 0 and st_quantity 1.
C17_MirrorEndOfFile ==
    (/\ te.called
     /\ te.event.type = "frame"
     /\ te.event.part \in {"status", "length", "text"}) =>
        /\ te.value = 1
        /\ ctl.st_dispatch = InstructionKey_Identifier(ai_session_close)
        /\ ctl.st_text_length = 0
        /\ ctl.st_quantity = 1

\* The cells of area in row-major order, out of the image of the device.
RowMajorCells(d, area) ==
    [k \in 1..(area.lines * area.span) |->
        d.cmd_image[((area.top_offset + ((k - 1) \div area.span)) * d.cmd_view.span)
                    + area.left_offset + ((k - 1) % area.span) + 1]]

\* C18: an invalidated area goes to the display channel as two CellArea
\* headers, the area and then an empty area, followed by the lines x span
\* cells of the area in row-major order.
C18_InvalidationFraming ==
    (/\ rp.done
     /\ Len(rp.areas) = 1
     /\ CellArea_GetVolume(rp.areas[1]) > 0) =>
        md = <<AreaUnit(rp.areas[1]), AreaUnit(CellArea(0, 0, 0, 0))>>
             \o [k \in 1..CellArea_GetVolume(rp.areas[1]) |->
                   CellUnit(RowMajorCells(xd, rp.areas[1])[k])]

\* C19: when the connection of the backend is lost, transfer_event returns
\* and raises nothing, and the status holds a session/close event.
C19_DisconnectionSurfaced ==
    (te.called /\ te.event.type = "closed") =>
        /\ ~te.raised
        /\ ctl.st_dispatch = InstructionKey_Identifier(ai_session_close)

\* C20: device_manage_terminal returns the status the application it ran
\* returned, and returns 199 only when the application was not started.
C20_BootstrapStatus ==
    boot.called =>
        /\ boot.started => boot.returned = boot.status
        /\ boot.returned = SetupFailure => ~boot.started

\* C21: Device.define returns the scalar of a single-scalar string, and for
\* the expressions of several codepoints negative identifiers, the same
\* for the same expression and different for different expressions.
C21_DefineInjective ==
    \A p \in dd.defined :
        /\ Len(p[1]) = 1 => p[2] = p[1][1]
        /\ Len(p[1]) > 1 => p[2] < 0
        /\ \A q \in dd.defined :
              (Len(p[1]) > 1 /\ Len(q[1]) > 1) =>
                  ((p[1] = q[1]) <=> (p[2] = q[2]))

\* C22: a cell built as Pixels holds CM_IMAGE_TILE in its window and is not
\* of the glyph type, a cell built as Glyph with a window of 0..15 is of
\* the glyph type, and a select that follows a rewrite returns a Pixels
\* object for every cell that the rewrite wrote from a Pixels object.
C22_PixelDiscriminant ==
    [][/\ op'.name = "rewrite" =>
            \A i \in 1..Len(op'.source) :
                /\ op'.source[i].type = "Pixels" =>
                      /\ op'.source[i].cell.c_window = CM_IMAGE_TILE
                      /\ ~Cell_GlyphType(op'.source[i].cell)
                /\ op'.source[i].type = "Glyph" =>
                      Cell_GlyphType(op'.source[i].cell)
       /\ (op.name = "rewrite" /\ op'.name = "select") =>
            \A k \in 1..Len(op'.read) : \A j \in 1..Len(op.written) :
                (/\ op'.read[k] = op.written[j]
                 /\ op.written[j] >= 0 /\ op.written[j] < Len(image)
                 /\ op.source[j].type = "Pixels") =>
                    select_type(op'.result[k]) = "Pixels"]_vars

\* C23: after resize_screen with y_cells = L and x_cells = S the screen of
\* the device has the dimensions {0, 0, L, S} over a buffer of L x S cells,
\* cmd_image and cmd_view refer to that buffer and those dimensions, and a
\* rewrite of the cell at (L - 1, S - 1) that follows writes the last cell
\* of the buffer.
C23_ResizeScreen ==
    [][/\ (op'.name = "resize_screen" /\ op'.err = "") =>
            /\ so'.dimensions = op'.a1
            /\ op'.a1.top_offset = 0 /\ op'.a1.left_offset = 0
            /\ so'.memlen = CellSize * op'.a1.lines * op'.a1.span
            /\ Len(image') = op'.a1.lines * op'.a1.span
            /\ dv'.cmd_image = "screen"
            /\ dv'.cmd_view = "screen"
       /\ (/\ op.name = "resize_screen" /\ op.err = ""
           /\ op'.name = "rewrite"
           /\ op.a1.lines > 0 /\ op.a1.span > 0
           /\ op'.a1 = CellArea(op.a1.lines - 1, op.a1.span - 1, 1, 1)) =>
            /\ op'.err = ""
            /\ op'.written = <<(op.a1.lines * op.a1.span) - 1>>
            /\ image'[op.a1.lines * op.a1.span] = op'.source[1].cell
            /\ \A i \in 1..((op.a1.lines * op.a1.span) - 1) : image'[i] = image[i]]_vars

\* The cell (9, 19) of a screen resized to 10 lines of 20 cells is
\* rewritten.
C23_Witness ==
    /\ op.name = "rewrite"
    /\ so.device
    /\ so.dimensions = CellArea(0, 0, ScenarioLines, ScenarioSpan)
    /\ op.a1 = CellArea(ScenarioLines - 1, ScenarioSpan - 1, 1, 1)
    /\ op.written = <<(ScenarioLines * ScenarioSpan) - 1>>
    /\ dv.cmd_image = "screen"

\* C24: from the construction of the Device on, cmd_image and cmd_view of
\* the backend are the image and the dimensions of Device.screen.
C24_SharedBuffer ==
    dv.object =>
        /\ dv.cmd_image = "screen"
        /\ dv.cmd_view = "screen"

\* The units of area and its cells, in row-major order, are among the first
\* n units.
TransmittedWithin(units, n, d, area) ==
    \E i \in 1..n :
        /\ i + CellArea_GetVolume(area) <= n
        /\ units[i] = AreaUnit(area)
        /\ \A k \in 1..CellArea_GetVolume(area) :
              units[i + k] = CellUnit(RowMajorCells(d, area)[k])

\* The cells of area, in row-major order, are drawn by one of the first n
\* steps.
RenderedWithin(steps, n, d, area) ==
    \E i \in 1..n :
        /\ steps[i].step = "render"
        /\ \E j \in 1..Len(steps[i].areas) : steps[i].areas[j] = area
        /\ \E o \in 0..(Len(steps[i].cells) - CellArea_GetVolume(area)) :
              \A k \in 1..CellArea_GetVolume(area) :
                  steps[i].cells[o + k] = RowMajorCells(d, area)[k]

\* C25: replicate_cells flushes first.  On xdg-xcb every area invalidated
\* before the call is rendered before the copy, on the mirror it is
\* transmitted before the destination and the source, and no area is
\* left pending.
C25_ReplicateFlushes ==
    dc.call = "replicate_cells" =>
        /\ dc.left = << >>
        /\ dc.backend = "xdg-xcb" =>
              /\ Len(dc.steps) > 0
              /\ dc.steps[Len(dc.steps)] = CopyStep(dc.dst, dc.src)
              /\ \A j \in 1..Len(dc.pending) :
                    RenderedWithin(dc.steps, Len(dc.steps) - 1, xd, dc.pending[j])
        /\ dc.backend = "mirror" =>
              /\ Len(dc.units) >= 2
              /\ dc.units[Len(dc.units) - 1] = AreaUnit(dc.dst)
              /\ dc.units[Len(dc.units)] = AreaUnit(dc.src)
              /\ \A j \in 1..Len(dc.pending) :
                    CellArea_GetVolume(dc.pending[j]) > 0 =>
                        TransmittedWithin(dc.units, Len(dc.units) - 2, xd,
                                          dc.pending[j])

\* An area is pending when replicate_cells is called, on the xdg-xcb device.
C25_Witness ==
    /\ dc.call = "replicate_cells"
    /\ dc.backend = "xdg-xcb"
    /\ Len(dc.pending) > 0
    /\ CellArea_GetVolume(dc.pending[1]) > 1
    /\ Len(dc.steps) = 2

\* C26: after dispatch_image no invalidation is pending, and every area
\* invalidated before the call has been rendered before the frame is
\* presented (xdg-xcb) or transmitted before the pair of zero areas
\* (mirror).
C26_DispatchResets ==
    dc.call = "dispatch_image" =>
        /\ dc.left = << >>
        /\ dc.backend = "xdg-xcb" =>
              /\ Len(dc.steps) > 0
              /\ dc.steps[Len(dc.steps)] = PresentStep
              /\ \A j \in 1..Len(dc.pending) :
                    RenderedWithin(dc.steps, Len(dc.steps) - 1, xd, dc.pending[j])
        /\ dc.backend = "mirror" =>
              /\ Len(dc.units) >= 2
              /\ dc.units[Len(dc.units) - 1] = AreaUnit(CellArea(0, 0, 0, 0))
              /\ dc.units[Len(dc.units)] = AreaUnit(CellArea(0, 0, 0, 0))
              /\ \A j \in 1..Len(dc.pending) :
                    CellArea_GetVolume(dc.pending[j]) > 0 =>
                        TransmittedWithin(dc.units, Len(dc.units) - 2, xd,
                                          dc.pending[j])

\* C27: every return of transfer_event is for one event that arrived, and
\* st_dispatch, st_quantity and st_text_length were written for that event.
C27_StatusOfTheEvent ==
    (te.called /\ ~te.raised /\ te.value = 0 /\ te.event.type # "frame") =>
        te.assigned

\* C28: after a transfer_event of the mirror that received a whole frame,
\* st_text_length is the text length of the frame and transfer_text yields
\* that many bytes, which are the text received for this frame and lie
\* inside of cm_event_text.
C28_MirrorTextLength ==
    (/\ te.called /\ te.value = 1
     /\ te.event.type = "frame" /\ te.event.part = "whole") =>
        /\ ctl.st_text_length = te.event.textlength
        /\ mirror_transfer_text(ctl, mt).size = te.event.textlength
        /\ te.event.textlength < TextCapacity
        /\ te.event.textlength > 0 =>
              mirror_transfer_text(ctl, mt).string.received = te.event.textlength

\* A call of cache_acquire_tile missed in bucket b (counted from 1) while no
\* storage slot remained and the bucket was full.
EvictingMiss(b) ==
    /\ acq'.n = acq.n + 1
    /\ acq'.rendered
    /\ acq'.bucket + 1 = b
    /\ tc.dtc_image_next = tc.dtc_image_limit
    /\ tc.dtc_record_counts[b] >= tc.dtc_record_slots[b]

\* The records a full bucket of count records gives up: a quarter of them,
\* rounded down, and the last one when that quarter is none.
Dropped(count) == IF count \div 4 = 0 THEN 1 ELSE count \div 4

\* C29: when no storage slot remains and the bucket of a missed cell is
\* full, the bucket's count is reduced by the count over four rounded up
\* before the new record is appended, whatever the confinement and the count.
C29_EvictionQuarter ==
    [][\A b \in 1..tc.dtc_distribution_size :
          EvictingMiss(b) =>
            tc'.dtc_record_counts[b] =
              (tc.dtc_record_counts[b] - ((tc.dtc_record_counts[b] + 3) \div 4)) + 1]_vars

\* C29, as the code has it: the count is reduced by the count over four
\* rounded down, and by one when the count is below four, before the new
\* record is appended.
C29_EvictionQuarterDown ==
    [][\A b \in 1..tc.dtc_distribution_size :
          EvictingMiss(b) =>
            tc'.dtc_record_counts[b] =
              (tc.dtc_record_counts[b] - Dropped(tc.dtc_record_counts[b])) + 1]_vars

\* A full bucket of more than four records, not a multiple of four, gave
\* up one record for a new cell and is full again.
C29_Witness ==
    /\ acq.n > 0
    /\ acq.rendered
    /\ acq.evicted
    /\ tc.dtc_image_next = tc.dtc_image_limit
    /\ tc.dtc_record_counts[acq.bucket + 1] = tc.dtc_record_slots[acq.bucket + 1]
    /\ tc.dtc_record_counts[acq.bucket + 1] > 4
    /\ tc.dtc_record_counts[acq.bucket + 1] % 4 # 0

\* The storage slots bound in the cache: <<b, k>> for record k of the
\* slots of bucket b (counted from 1), in use or not.
BoundSlots ==
    UNION {{<<b, k>> : k \in 1..tc.dtc_record_slots[b]} :
             b \in 1..tc.dtc_distribution_size}

RECURSIVE SlotCount(_)
SlotCount(b) ==
    IF b = 0 THEN 0 ELSE tc.dtc_record_slots[b] + SlotCount(b - 1)

\* C30: no two records, of one bucket or of two, are bound to the same
\* image, line and cell; the slot index of every bound record is below the
\* cube of the confinement; the slot counts of the buckets add up to
\* dtc_image_next.
C30_SlotsUnique ==
    /\ \A p \in BoundSlots : \A q \in BoundSlots :
         p # q =>
           LET tp == tc.dtc_records[p[1]][p[2]]
               tq == tc.dtc_records[q[1]][q[2]]
           IN  <<tp.tr_image, tp.tr_line, tp.tr_cell>>
                 # <<tq.tr_image, tq.tr_line, tq.tr_cell>>
    /\ \A p \in BoundSlots :
         SlotOf(tc, tc.dtc_records[p[1]][p[2]])
           < tc.dtc_image_confinement * tc.dtc_image_confinement
               * tc.dtc_image_confinement
    /\ SlotCount(tc.dtc_distribution_size) = tc.dtc_image_next

\* Two buckets have grown beyond their first allocation, every storage slot
\* is bound, and the last acquire dropped records of its bucket.
C30_Witness ==
    /\ acq.n > 0
    /\ acq.evicted
    /\ tc.dtc_image_next = tc.dtc_image_limit
    /\ \E b1 \in 1..tc.dtc_distribution_size :
         \E b2 \in 1..tc.dtc_distribution_size :
           /\ b1 # b2
           /\ tc.dtc_record_slots[b1] > tc.dtc_allocation_size
           /\ tc.dtc_record_slots[b2] > tc.dtc_allocation_size

\* The areas of a sequence of areas that hold a cell.
NonEmptyAreas(areas) ==
    SelectSeq(areas, LAMBDA a : CellArea_GetVolume(a) > 0)

\* The areas invalidated and not processed, of the backend of c.
PendingAreas(c, x, m) ==
    IF c.backend = "mirror" THEN mirror_pending(m) ELSE x.invalids

RECURSIVE StepAreas(_, _)
StepAreas(steps, i) ==
    IF i > Len(steps)
    THEN << >>
    ELSE (IF steps[i].step = "render" THEN steps[i].areas ELSE << >>)
         \o StepAreas(steps, i + 1)

\* The area headers among the first n units of the display channel.
UnitAreas(units, n) ==
    LET headers == SelectSeq(SubSeq(units, 1, n), LAMBDA u : u.unit = "CellArea")
    IN  [k \in 1..Len(headers) |-> headers[k].area]

\* The areas processed by the call that r, c and units record: the areas
\* drawn (xdg-xcb), or the areas transmitted ahead of the pair of areas that
\* ends replicate_cells and dispatch_image (mirror).
ProcessedAreas(r, c, units) ==
    IF c.backend = "mirror"
    THEN IF r.done THEN UnitAreas(units, Len(units))
         ELSE UnitAreas(units, Len(units) - 2)
    ELSE IF r.done THEN r.areas ELSE StepAreas(c.steps, 1)

\* A step of invalidate_cells.
Invalidation ==
    \/ Len(xi'.invalids) = Len(xi.invalids) + 1
    \/ mi'.icount = mi.icount + 1

\* C31: every call of render_image, replicate_cells or dispatch_image
\* processes the non-empty areas invalidated and not yet processed, each
\* once and in the order of their invalidation, and leaves none pending for
\* a later call.
C31_InvalidationsOnceInOrder ==
    [][~Invalidation =>
          /\ NonEmptyAreas(ProcessedAreas(rp', dc', md'))
               = NonEmptyAreas(PendingAreas(dc, xi, mi))
          /\ PendingAreas(dc', xi', mi') = << >>]_vars

\* Index i lies in the buffer of lines x span cells of the screen.
InScreenBuffer(i) ==
    i >= 0 /\ i < so.dimensions.lines * so.dimensions.span

\* C32: every cell select reads, and every cell replicate_cells reads or
\* writes, lies inside the screen's buffer of lines x span cells, whatever
\* the area arguments.
C32_ClippedToScreen ==
    op.name \in {"select", "replicate_cells"} =>
        /\ \A k \in 1..Len(op.read) : InScreenBuffer(op.read[k])
        /\ \A k \in 1..Len(op.written) : InScreenBuffer(op.written[k])

\* The records in use: <<b, k>> for record k of bucket b (counted from 1)
\* below the record count of the bucket.
LiveRecords ==
    UNION {{<<b, k>> : k \in 1..tc.dtc_record_counts[b]} :
             b \in 1..tc.dtc_distribution_size}

\* C33: the storage slot of every record in use holds the rasterization of
\* the record's key.
C33_CacheCoherent ==
    \A p \in LiveRecords :
        tiles[SlotOf(tc, tc.dtc_records[p[1]][p[2]])]
            = tc.dtc_records[p[1]][p[2]].tr_key

\* A cell was found in the cache after records of its bucket had been
\* exchanged, while the bucket holds another record.
C33_Witness ==
    /\ acq.n > 0
    /\ ~acq.rendered
    /\ hist.swapped
    /\ tc.dtc_record_counts[acq.bucket + 1] > 1

\* The keys of the records in use of bucket b (from 1) of the cache t.
BucketKeys(t, b) ==
    {t.dtc_records[b][k].tr_key : k \in 1..t.dtc_record_counts[b]}

\* The key and the storage slot of every record in use of bucket b.
BucketBindings(t, b) ==
    {<<t.dtc_records[b][k].tr_key, SlotOf(t, t.dtc_records[b][k])>> :
        k \in 1..t.dtc_record_counts[b]}

\* C34: an acquire finds the cell when a record in use of its bucket holds
\* it, exchanges by prioritize included; a hit leaves the keys in use and
\* their slots as they were, a miss that drops nothing adds the one record
\* of the cell, and no two records in use of the bucket hold the same key.
C34_WalkKeepsRecords ==
    [][acq'.n = acq.n + 1 =>
          /\ acq'.rendered <=> acq'.cell \notin BucketKeys(tc, acq'.bucket + 1)
          /\ ~acq'.rendered =>
                BucketBindings(tc', acq'.bucket + 1)
                    = BucketBindings(tc, acq'.bucket + 1)
          /\ (acq'.rendered /\ ~acq'.evicted) =>
                /\ BucketBindings(tc, acq'.bucket + 1)
                      \subseteq BucketBindings(tc', acq'.bucket + 1)
                /\ BucketKeys(tc', acq'.bucket + 1)
                      = BucketKeys(tc, acq'.bucket + 1) \cup {acq'.cell}
          /\ Cardinality(BucketKeys(tc', acq'.bucket + 1))
                = tc'.dtc_record_counts[acq'.bucket + 1]]_vars

\* The third record of a bucket was found by a walk during which the two
\* records before it were exchanged.
C34_Witness ==
    /\ acq.n > 0
    /\ ~acq.rendered
    /\ acq.swapped
    /\ acq.visited = 3
    /\ tc.dtc_record_counts[acq.bucket + 1] = 3
    /\ tc.dtc_records[acq.bucket + 1][3].tr_key = acq.cell

\* The record tr as the walk hands it to prioritize: hit once more when it
\* holds the cell acquired, passed once more when it does not.
Walked(tr) ==
    {[tr EXCEPT !.tr_hits = @ + 1], [tr EXCEPT !.tr_passes = @ + 1]}

\* C35: between acquires every record in use has at least one hit and one
\* pass, and the divisor of the rate that prioritize computes for it at the
\* next walk, exchanged counters included, is not zero.
C35_DivisorNonZero ==
    \A p \in LiveRecords :
        /\ tc.dtc_records[p[1]][p[2]].tr_hits >= 1
        /\ tc.dtc_records[p[1]][p[2]].tr_passes >= 1
        /\ \A latter \in Walked(tc.dtc_records[p[1]][p[2]]) :
              latter.tr_hits + latter.tr_passes >= PriorityThreshold =>
                  prioritize_divisor(latter) # 0

\* A record passed more often than hit was rated, and a record hit more
\* often than passed is about to be.
C35_Witness ==
    /\ \E p \in LiveRecords : tc.dtc_records[p[1]][p[2]].tr_rate < 0
    /\ \E p \in LiveRecords :
         /\ tc.dtc_records[p[1]][p[2]].tr_hits + tc.dtc_records[p[1]][p[2]].tr_passes
               = PriorityThreshold - 1
         /\ tc.dtc_records[p[1]][p[2]].tr_hits > tc.dtc_records[p[1]][p[2]].tr_passes

\* C36: the receiver that Device.transmit invokes is not null, after
\* construction, after controls_snapshot and after integrate_controls.
C36_ReceiverNonNull ==
    tx.called => tx.receiver # "NULL"

\* C37: the terminator that the mirror's transfer_event writes and the text
\* bytes it receives lie inside cm_event_text, whatever text length the
\* controls channel carries.
C37_TextInsideBuffer ==
    /\ mt.terminator < TextCapacity
    /\ mt.received <= TextCapacity

\* C38: every cell that render_image reads, and every cell that the mirror
\* transmits, for the areas invalidated lies inside cmd_image as the
\* current view describes it.
C38_RenderReadsImage ==
    rp.done =>
        \A k \in 1..Len(rp.read) :
            /\ rp.read[k] >= 0
            /\ rp.read[k] < Len(xd.cmd_image)
            /\ rp.read[k] < xd.cmd_view.lines * xd.cmd_view.span

\* The elements of the source that rewrite took before the one that is not
\* a Cell.
YieldedCells(o) == SubSeq(o.source, 1, o.consumed - 1)

\* C39 as claimed: when rewrite fails because an element of the source is
\* not a Cell, the screen buffer is as it was before the call.
C39_AtomicOnError ==
    (op.name = "rewrite" /\ op.err = "ValueError") => image = op.before

\* C39 amended: when rewrite fails because an element of the source is not
\* a Cell, the cells yielded before that element have been written, each
\* where a rewrite of those cells alone writes it, and nothing else of the
\* buffer has changed.
C39_PrefixWritten ==
    (op.name = "rewrite" /\ op.err = "ValueError") =>
        /\ Len(op.written) = op.consumed - 1
        /\ screen_rewrite(so, op.before, op.a1, YieldedCells(op)).err = ""
        /\ op.written =
               screen_rewrite(so, op.before, op.a1, YieldedCells(op)).written
        /\ image = screen_rewrite(so, op.before, op.a1, YieldedCells(op)).image

\* C39 witness: a rewrite failed at its third element after it had changed
\* two cells of the buffer.
C39_Witness ==
    /\ op.name = "rewrite"
    /\ op.err = "ValueError"
    /\ op.consumed = 3
    /\ Inside(so.dimensions, op.a1)
    /\ image # op.before
    /\ \A k \in 1..2 : image[op.written[k] + 1] = op.source[k].cell

\* The cell at buffer index i of the screen s is a cell of the area a.
InTarget(s, a, i) ==
    /\ i >= 0
    /\ i < s.dimensions.lines * s.dimensions.span
    /\ s.dimensions.span > 0
    /\ (i \div s.dimensions.span) + s.dimensions.top_offset >= a.top_offset
    /\ (i \div s.dimensions.span) + s.dimensions.top_offset < a.top_offset + a.lines
    /\ (i % s.dimensions.span) + s.dimensions.left_offset >= a.left_offset
    /\ (i % s.dimensions.span) + s.dimensions.left_offset < a.left_offset + a.span

\* C40: rewrite(target, source) writes at most target.lines x target.span
\* cells, every one of them a cell of the target, and changes no cell of
\* the buffer outside of the target.
C40_RewriteInsideTarget ==
    op.name = "rewrite" =>
        /\ Len(op.written) <= op.a1.lines * op.a1.span
        /\ \A k \in 1..Len(op.written) : InTarget(so, op.a1, op.written[k])
        /\ \A i \in 1..Len(image) :
               image[i] # op.before[i] => InTarget(so, op.a1, i - 1)

====
